---------------------------- MODULE Spec2Model ----------------------------
(***************************************************************************)
(* Brand knowledge graph: the per-account file store (processed.json,      *)
(* graph_store/graph.gpickle, graph_store/embeddings.pkl) and the          *)
(* operations of graph.py over it, with scrape_account of ingest.py as the *)
(* writer of the post collection.  Every operation runs to completion in   *)
(* one step; result holds what the last call returned or raised.           *)
(***************************************************************************)
EXTENDS Integers, Sequences, FiniteSets, TLC

VARIABLES
    posts,      \* posts[d]: data/<d>/processed.json, [exists, list]
    snap,       \* snap[d]:  data/<d>/graph_store/graph.gpickle, [state, graph]
    emb,        \* emb[d]:   data/<d>/graph_store/embeddings.pkl, [state, ids, vectors, model]
    backend,    \* TRUE while _embedding_model.encode answers
    result      \* the last call: [op, username, arg, kind, value, path, again]

vars == <<posts, snap, emb, backend, result>>

(***************************************************************************)
(* Bounds of the model.                                                    *)
(***************************************************************************)
\* longest item list one scrape delivers
MaxItems == 3
\* largest top_k passed to find_similar_posts
MaxK == 2

(***************************************************************************)
(* Program constants.                                                      *)
(***************************************************************************)
EMBEDDING_MODEL == "BAAI/bge-small-en-v1.5"
\* caption previews: best_post, similar posts, subgraph nodes
BestPreviewLen == 140
SimilarPreviewLen == 80
NodeCaptionLen == 120
\* rows kept by hashtag analysis
TopByFrequency == 25
TopByAvgLikes == 10
\* round(x, 4): similarities are kept in units of 1/10000
SimilarityScale == 10000
DAYS_BACK == 60

(***************************************************************************)
(* Accounts and path helpers.  _account_dir lowercases the handle and      *)
(* strips leading "@"; the table gives that conversion on the handles the  *)
(* model passes in.                                                        *)
(***************************************************************************)
Dirs == {"nike", "adidas"}
Handles == {"nike", "@Nike", "adidas"}

NormUser(username) ==
    CASE username = "nike"   -> "nike"
      [] username = "@Nike"  -> "nike"
      [] username = "adidas" -> "adidas"

(***************************************************************************)
(* Posts as normalise returns them.  hashtags and mentions are the sorted  *)
(* lists of _extract_hashtags / _extract_mentions; themes and theme_scores *)
(* are empty until _cluster_themes.  Post ids are at most six characters   *)
(* and usernames too, so pid[:8], post_id[:6] and username[:6] are the     *)
(* strings themselves.  A caption is a text and its length in characters;  *)
(* NoCaption is the empty string.                                          *)
(***************************************************************************)
Caption(text, len) == [text |-> text, len |-> len]
NoCaption == Caption("", 0)

\* caption[:n]
Preview(caption, n) == IF caption.len <= n THEN caption ELSE Caption(caption.text, n)

\* theme_scores: {theme: round(score, 4)} in 1/10000, or {}
ThemeScore(theme, score) == <<[theme |-> theme, score |-> score]>>
NoThemeScores == <<>>

P1 == [post_id |-> "p1", url |-> "https://www.instagram.com/p/p1/",
       caption |-> Caption("c1", 150), hashtags |-> <<"gym", "run">>, mentions |-> <<"bolt">>,
       themes |-> <<>>, theme_scores |-> NoThemeScores,
       like_count |-> 105, comment_count |-> 7,
       media_type |-> "image", timestamp |-> "2026-10-03T10:00:00+00:00",
       month |-> "2026-10"]
P2 == [post_id |-> "p2", url |-> "https://www.instagram.com/p/p2/",
       caption |-> NoCaption, hashtags |-> <<"run">>, mentions |-> <<>>,
       themes |-> <<>>, theme_scores |-> NoThemeScores,
       like_count |-> 50, comment_count |-> 2,
       media_type |-> "video", timestamp |-> "2026-10-20T08:30:00+00:00",
       month |-> "2026-10"]
P3 == [post_id |-> "p3", url |-> "https://www.instagram.com/p/p3/",
       caption |-> Caption("c2", 100), hashtags |-> <<>>, mentions |-> <<"bolt">>,
       themes |-> <<>>, theme_scores |-> NoThemeScores,
       like_count |-> 50, comment_count |-> 0,
       media_type |-> "image", timestamp |-> "2026-09-28T18:45:00+00:00",
       month |-> "2026-09"]

Pool == {P1, P2, P3}

\* a post without caption or hashtags, which the backend encodes as it does P2's
P4 == [post_id |-> "p4", url |-> "https://www.instagram.com/p/p4/",
       caption |-> NoCaption, hashtags |-> <<>>, mentions |-> <<>>,
       themes |-> <<>>, theme_scores |-> NoThemeScores,
       like_count |-> 50, comment_count |-> 1,
       media_type |-> "carousel", timestamp |-> "2026-09-30T12:00:00+00:00",
       month |-> "2026-09"]

\* a post that carries more hashtags than top_by_frequency has rows
P5 == [post_id |-> "p5", url |-> "https://www.instagram.com/p/p5/",
       caption |-> NoCaption,
       hashtags |-> <<"run", "t01", "t02", "t03", "t04", "t05", "t06",
                       "t07", "t08", "t09", "t10", "t11", "t12", "t13",
                       "t14", "t15", "t16", "t17", "t18", "t19", "t20",
                       "t21", "t22", "t23", "t24", "t25">>,
       mentions |-> <<>>,
       themes |-> <<>>, theme_scores |-> NoThemeScores,
       like_count |-> 20, comment_count |-> 3,
       media_type |-> "image", timestamp |-> "2026-10-25T09:00:00+00:00",
       month |-> "2026-10"]

\* runs whose posts carry more than TopByFrequency distinct hashtags
TagLists == {<<P5>>, <<P2, P5>>, <<P1, P5>>}

\* a post that nobody liked
P6 == [post_id |-> "p6", url |-> "https://www.instagram.com/p/p6/",
       caption |-> NoCaption, hashtags |-> <<>>, mentions |-> <<>>,
       themes |-> <<>>, theme_scores |-> NoThemeScores,
       like_count |-> 0, comment_count |-> 0,
       media_type |-> "video", timestamp |-> "2026-09-12T07:15:00+00:00",
       month |-> "2026-09"]

\* runs in which the posts of one month have no likes
QuietLists == {<<P6>>, <<P2, P6>>}

\* one captioned post and two posts that score alike against it, in both orders,
\* and a run of all four posts
TieLists == {<<P3, P2, P4>>, <<P3, P4, P2>>, <<P1, P3, P2, P4>>}
PostIds == {p.post_id : p \in Pool}
\* a post id no collection holds
UnknownId == "zz"

RECURSIVE SeqsUpTo(_, _)
SeqsUpTo(S, n) ==
    IF n = 0 THEN {<<>>}
    ELSE LET shorter == SeqsUpTo(S, n - 1)
         IN  shorter \cup {Append(s, x) : s \in {t \in shorter : Len(t) = n - 1}, x \in S}

ItemLists == SeqsUpTo(Pool, MaxItems)

Range(s) == {s[i] : i \in 1..Len(s)}
IdsOf(ps) == {ps[i].post_id : i \in 1..Len(ps)}
UniqueIds(ps) == \A i, j \in 1..Len(ps) : ps[i].post_id = ps[j].post_id => i = j

(***************************************************************************)
(* Files.                                                                  *)
(***************************************************************************)
NoPosts == [exists |-> FALSE, list |-> <<>>]
PostsFile(ps) == [exists |-> TRUE, list |-> ps]

EmptyGraph == [node |-> <<>>, edge |-> <<>>]
NoSnap == [state |-> "absent", graph |-> EmptyGraph]
\* bytes pickle.load cannot read
GarbageSnap == [state |-> "garbage", graph |-> EmptyGraph]
\* a pickle of something that is no nx.DiGraph
WrongTypeSnap == [state |-> "wrongtype", graph |-> EmptyGraph]
SnapFile(G) == [state |-> "graph", graph |-> G]

NoEmb == [state |-> "absent", ids |-> <<>>, vectors |-> <<>>, model |-> ""]
GarbageEmb == [state |-> "garbage", ids |-> <<>>, vectors |-> <<>>, model |-> ""]
EmbFile(ids, vectors, model) ==
    [state |-> "ok", ids |-> ids, vectors |-> vectors, model |-> model]

(***************************************************************************)
(* Outcomes of a call.                                                     *)
(***************************************************************************)
Ret(v) == [kind |-> "value", value |-> v]
ErrDict(msg) == [kind |-> "error", value |-> [error |-> msg]]
Raise(exc, msg) == [kind |-> "raise", value |-> [exc |-> exc, msg |-> msg]]

\* path names the branch the call took; again is set by build_graph when it rebuilds
\* right after a rebuild of the same account over the same posts, and by
\* find_similar_posts when it ranks after build_embeddings
Res(op, username, arg, outcome, path) ==
    [op |-> op, username |-> username, arg |-> arg,
     kind |-> outcome.kind, value |-> outcome.value, path |-> path, again |-> FALSE]

\* _posts that answers an absent processed.json with an empty collection
ReadPostsOrEmpty(username) ==
    IF ~posts[NormUser(username)].exists THEN Ret(<<>>)
    ELSE Ret(posts[NormUser(username)].list)

(***************************************************************************)
(* _posts: the account's post collection, or the missing-data failure.     *)
(***************************************************************************)
ReadPosts(username) ==
    IF ~posts[NormUser(username)].exists
    THEN Raise("FileNotFoundError", <<"No data for @", username, ".">>)
    ELSE Ret(posts[NormUser(username)].list)

(***************************************************************************)
(* The directed graph: node maps a node id to its attributes, edge maps a  *)
(* pair (u, v) to the edge's relation, as nx.DiGraph keeps them.  A node   *)
(* id is a string; the model writes it as the sequence of the parts its    *)
(* f-string joins, so that equal strings are equal sequences.              *)
(***************************************************************************)
BrandId(u) == <<u>>
PostNodeId(pid) == <<pid>>
HashtagId(tag) == <<"#", tag>>
MentionId(m) == <<"@", m>>
ThemeId(t) == <<"theme", ":", t>>
MonthId(m) == <<"month", ":", m>>
MediaId(mt) == <<"media", ":", mt>>

\* theme.replace("_", " ").title()
ThemeLabel(theme) ==
    CASE theme = "summer_run" -> "Summer Run"
      [] OTHER -> theme

\* media_type.upper()
Upper(mt) ==
    CASE mt = "image" -> "IMAGE"
      [] mt = "video" -> "VIDEO"
      [] mt = "carousel" -> "CAROUSEL"
      [] OTHER -> mt

HasNode(G, id) == id \in DOMAIN G.node

\* G.add_node(id, **attrs): a new node, or the attributes of an old one updated
AddNode(G, id, attrs) ==
    [G EXCEPT !.node =
        (id :> (IF HasNode(G, id) THEN attrs @@ G.node[id] ELSE attrs)) @@ G.node]

\* if not G.has_node(id): G.add_node(id, **attrs)
AddShared(G, id, attrs) == IF HasNode(G, id) THEN G ELSE AddNode(G, id, attrs)

\* G.add_edge(u, v, relation=rel): both end nodes exist afterwards
AddEdge(G, u, v, rel) ==
    LET withU == IF HasNode(G, u) THEN G ELSE AddNode(G, u, <<>>)
        withV == IF HasNode(withU, v) THEN withU ELSE AddNode(withU, v, <<>>)
    IN  [withV EXCEPT !.edge = (<<u, v>> :> rel) @@ withV.edge]

Edges(G) == {[from |-> e[1], to |-> e[2], relation |-> G.edge[e]] : e \in DOMAIN G.edge}

(***************************************************************************)
(* build_graph, the rebuild: the brand node, then for each post in input   *)
(* order its node and its edges.                                           *)
(***************************************************************************)
RECURSIVE AddHashtags(_, _, _, _)
AddHashtags(G, pid, tags, i) ==
    IF i > Len(tags) THEN G
    ELSE LET tid == HashtagId(tags[i])
             G1 == AddShared(G, tid, [node_type |-> "hashtag", label |-> tid])
         IN  AddHashtags(AddEdge(G1, PostNodeId(pid), tid, "HAS_HASHTAG"), pid, tags, i + 1)

RECURSIVE AddMentions(_, _, _, _)
AddMentions(G, pid, ms, i) ==
    IF i > Len(ms) THEN G
    ELSE LET mid == MentionId(ms[i])
             G1 == AddShared(G, mid, [node_type |-> "mention", label |-> mid])
         IN  AddMentions(AddEdge(G1, PostNodeId(pid), mid, "MENTIONS"), pid, ms, i + 1)

RECURSIVE AddThemes(_, _, _, _)
AddThemes(G, pid, ts, i) ==
    IF i > Len(ts) THEN G
    ELSE LET t_id == ThemeId(ts[i])
             G1 == AddShared(G, t_id, [node_type |-> "theme", label |-> ThemeLabel(ts[i])])
         IN  AddThemes(AddEdge(G1, PostNodeId(pid), t_id, "THEME"), pid, ts, i + 1)

\* the BELONGS_TO edge added only together with a new month node
AddMonthOnlyWhenNew(G, p) ==
    LET month_id == MonthId(p.month)
    IN  IF HasNode(G, month_id) THEN G
        ELSE AddEdge(AddNode(G, month_id, [node_type |-> "month", label |-> p.month]),
                     PostNodeId(p.post_id), month_id, "BELONGS_TO")

\* the post's month node and its BELONGS_TO edge
AddMonth(G, p) ==
    LET month_id == MonthId(p.month)
        G1 == AddShared(G, month_id, [node_type |-> "month", label |-> p.month])
    IN  AddEdge(G1, PostNodeId(p.post_id), month_id, "BELONGS_TO")

\* the post's media type node and its IS_TYPE edge
AddMedia(G, p) ==
    LET mt_id == MediaId(p.media_type)
        G1 == AddShared(G, mt_id, [node_type |-> "media_type", label |-> Upper(p.media_type)])
    IN  AddEdge(G1, PostNodeId(p.post_id), mt_id, "IS_TYPE")

\* one pass of the loop over posts
AddPost(G, u, p) ==
    LET pid == p.post_id
        G1 == AddNode(G, PostNodeId(pid),
                      [node_type |-> "post", label |-> <<"Post", ":", pid>>,
                       like_count |-> p.like_count, comment_count |-> p.comment_count,
                       media_type |-> p.media_type, timestamp |-> p.timestamp,
                       month |-> p.month, caption |-> p.caption, url |-> p.url])
        G2 == AddEdge(G1, BrandId(u), PostNodeId(pid), "POSTED")
        G3 == AddHashtags(G2, pid, p.hashtags, 1)
        G4 == AddMentions(G3, pid, p.mentions, 1)
        G5 == AddThemes(G4, pid, p.themes, 1)
    IN  AddMedia(AddMonth(G5, p), p)

RECURSIVE AddPosts(_, _, _, _)
\* for p in posts; the test has TLC finish the graph of one pass of the loop
\* before it starts the next (it would otherwise nest all of them)
AddPosts(G, u, ps, i) ==
    IF i > Len(ps) THEN G
    ELSE LET next == AddPost(G, u, ps[i])
         IN  IF DOMAIN next.node # {} THEN AddPosts(next, u, ps, i + 1) ELSE next

\* G = nx.DiGraph(); G.add_node(username, node_type="brand", ...)
BrandGraph(u) ==
    AddNode(EmptyGraph, BrandId(u), [node_type |-> "brand", label |-> <<"@", u>>])

\* the rebuilt graph of account u over the posts ps
Rebuild(u, ps) == AddPosts(BrandGraph(u), u, ps, 1)

(***************************************************************************)
(* _load: the stored graph, or the load failure.                           *)
(***************************************************************************)
Load(u) ==
    CASE snap[u].state = "graph"     -> Ret(snap[u].graph)
      [] snap[u].state = "wrongtype" -> Raise("ValueError", <<"Invalid graph file">>)
      [] OTHER                       -> Raise("UnpicklingError", <<"unpickling failed">>)

\* the existence test of the snapshot inverted
TriesCacheInverted(u, force_rebuild) == ~force_rebuild /\ snap[u].state = "absent"

\* if not force_rebuild and gp.exists(): the cached snapshot is tried
TriesCache(u, force_rebuild) == ~force_rebuild /\ snap[u].state # "absent"

\* except pickle.UnpicklingError: the ValueError of _load escapes
CaughtUnpicklingOnly(failure) ==
    failure.kind = "raise" /\ failure.value.exc = "UnpicklingError"

\* except Exception: every failure of _load is caught
Caught(failure) == failure.kind = "raise"

\* the cached snapshot is served only while the post collection exists
ServesCacheWithPosts(u, force_rebuild) ==
    TriesCache(u, force_rebuild) /\ Load(u).kind = "value" /\ posts[u].exists

\* the cached snapshot is tried and loads
ServesCache(u, force_rebuild) == TriesCache(u, force_rebuild) /\ Load(u).kind = "value"

\* the cached snapshot is tried, fails to load and the failure escapes build_graph
LoadEscapes(u, force_rebuild) ==
    TriesCache(u, force_rebuild) /\ Load(u).kind = "raise" /\ ~Caught(Load(u))

\* gp.unlink(missing_ok=True): the snapshot file once a caught load failure is handled
SnapAfterLoadAttempt(u, force_rebuild) ==
    IF TriesCache(u, force_rebuild) /\ Load(u).kind = "raise" /\ Caught(Load(u))
    THEN NoSnap ELSE snap[u]

\* a delta rebuild: the posts the stored snapshot already holds are skipped
RebuildInputDelta(u) ==
    IF ReadPosts(u).kind = "raise" \/ snap[u].state # "graph" THEN ReadPosts(u)
    ELSE Ret(SelectSeq(ReadPosts(u).value,
                       LAMBDA p : ~HasNode(snap[u].graph, PostNodeId(p.post_id))))

\* posts = _posts(username), the input of a rebuild
RebuildInput(u) == ReadPosts(u)

\* pickle.dump(G, f): the snapshot file a rebuild that made G leaves
Persisted(G) == SnapFile(G)

\* the branch build_graph(username, force_rebuild) takes
BuildPath(u, force_rebuild) ==
    IF ServesCache(u, force_rebuild) THEN "cache"
    ELSE IF LoadEscapes(u, force_rebuild) THEN "load_failed"
    ELSE IF SnapAfterLoadAttempt(u, force_rebuild) # snap[u] THEN "discard_rebuild"
    ELSE "rebuild"

\* what build_graph(username, force_rebuild) returns or raises
BuildOutcome(u, force_rebuild) ==
    IF ServesCache(u, force_rebuild) \/ LoadEscapes(u, force_rebuild) THEN Load(u)
    ELSE IF RebuildInput(u).kind = "raise" THEN RebuildInput(u)
    ELSE Ret(Rebuild(u, RebuildInput(u).value))

\* build_graph that returns the rebuilt graph without writing it
SnapAfterBuildUnsaved(u, force_rebuild) == SnapAfterLoadAttempt(u, force_rebuild)

\* the snapshot file when build_graph(username, force_rebuild) ends
SnapAfterBuild(u, force_rebuild) ==
    IF ServesCache(u, force_rebuild) \/ LoadEscapes(u, force_rebuild) THEN snap[u]
    ELSE IF RebuildInput(u).kind = "raise" THEN SnapAfterLoadAttempt(u, force_rebuild)
    ELSE Persisted(Rebuild(u, RebuildInput(u).value))

\* the last call was a build_graph of account u that rebuilt and returned its graph
LastRebuilt(u) ==
    /\ result.op = "build_graph"
    /\ NormUser(result.username) = u
    /\ result.path \in {"rebuild", "discard_rebuild"}
    /\ result.kind = "value"

\* build_graph that writes the snapshot it ends with for every account
build_graph_everywhere(username, force_rebuild) ==
    LET u == NormUser(username)
        path == BuildPath(u, force_rebuild)
    IN  /\ snap' = [d \in Dirs |-> SnapAfterBuild(u, force_rebuild)]
        /\ result' = [Res("build_graph", username, <<force_rebuild>>,
                          BuildOutcome(u, force_rebuild), path)
                         EXCEPT !.again = LastRebuilt(u) /\ posts[u].exists
                                          /\ path \in {"rebuild", "discard_rebuild"}]
        /\ UNCHANGED <<posts, emb, backend>>

build_graph(username, force_rebuild) ==
    LET u == NormUser(username)
        path == BuildPath(u, force_rebuild)
    IN  /\ snap' = [snap EXCEPT ![u] = SnapAfterBuild(u, force_rebuild)]
        /\ result' = [Res("build_graph", username, <<force_rebuild>>,
                          BuildOutcome(u, force_rebuild), path)
                         EXCEPT !.again = LastRebuilt(u) /\ posts[u].exists
                                          /\ path \in {"rebuild", "discard_rebuild"}]
        /\ UNCHANGED <<posts, emb, backend>>

(***************************************************************************)
(* The embedding backend.  encode returns unit vectors; the table holds    *)
(* them scaled by 5, so a dot product is 25 times the cosine.  The text of *)
(* a post is its caption, or its post_id when it has none.                 *)
(***************************************************************************)
\* p["caption"] or p["post_id"]
EncodedText(p) == IF p.caption # NoCaption THEN p.caption.text ELSE p.post_id

Encode(text) ==
    CASE text = "c1" -> <<3, 4>>
      [] text = "c2" -> <<4, 3>>
      [] text = "c3" -> <<4, 3>>
      [] text = "p1" -> <<0, 5>>
      [] text = "p2" -> <<5, 0>>
      [] text = "p4" -> <<5, 0>>
      [] OTHER       -> <<-3, 4>>

Dot(v, w) == v[1] * w[1] + v[2] * w[2]

\* build_embeddings: the record written for the posts ps
EmbeddingsOf(ps) ==
    EmbFile([i \in 1..Len(ps) |-> ps[i].post_id],
            [i \in 1..Len(ps) |-> Encode(EncodedText(ps[i]))],
            EMBEDDING_MODEL)

\* the embeddings file after build_embeddings(ps, u): encode fails before the file is opened
EmbAfterBuild(u, ps) == IF backend THEN EmbeddingsOf(ps) ELSE emb[u]

EncodeFailure == Raise("RuntimeError", <<"encode failed">>)

(***************************************************************************)
(* scrape_account.  items are the normalised items of raw.json or of the   *)
(* Apify run; token tells whether the run can be started.                  *)
(***************************************************************************)
RECURSIVE Dedup(_, _, _)
\* processed, seen = [], set(): the first item of each post_id is kept
Dedup(items, i, processed) ==
    IF i > Len(items) THEN processed
    ELSE IF items[i].post_id \in IdsOf(processed)
         THEN Dedup(items, i + 1, processed)
         ELSE Dedup(items, i + 1, Append(processed, items[i]))

\* the label KeyBERT gives the cluster of one caption
Keywords(text) ==
    CASE text = "c1" -> "summer_run"
      [] text = "c2" -> "summer_run"
      [] OTHER       -> "theme_0"

\* captioned = [p for p in posts if (p.get("caption") or "").strip()]
Captioned(ps) == SelectSeq(ps, LAMBDA p : p.caption # NoCaption)

\* _cluster_themes encodes the captions once there are two of them
ClusterFails(ps) == Len(Captioned(ps)) >= 2 /\ ~backend

\* _cluster_themes and the loop that stores its answer in the posts.  With at most
\* N_CLUSTERS captions every caption is a cluster of its own: its score is 1.0, at
\* least MIN_THEME_SCORE, and its theme is the label of its own keywords.
Clustered(ps) ==
    [i \in 1..Len(ps) |->
        IF Len(Captioned(ps)) >= 2 /\ ps[i].caption # NoCaption
        THEN [ps[i] EXCEPT !.themes = <<Keywords(ps[i].caption.text)>>,
                           !.theme_scores = ThemeScore(Keywords(ps[i].caption.text),
                                                       SimilarityScale)]
        ELSE [ps[i] EXCEPT !.themes = <<>>, !.theme_scores = NoThemeScores]]

\* if not force and pp.exists(): a non-empty processed.json is returned as it is
ServesProcessed(u, force) == ~force /\ posts[u].exists /\ posts[u].list # <<>>

scrape_account(username, force, items, token) ==
    LET u == NormUser(username)
        processed == Clustered(Dedup(items, 1, <<>>))
    IN  IF ServesProcessed(u, force)
        THEN /\ result' = Res("scrape_account", username, <<force>>, Ret(posts[u].list), "cached")
             /\ UNCHANGED <<posts, snap, emb, backend>>
        ELSE IF ~token
        THEN /\ result' = Res("scrape_account", username, <<force>>,
                              Raise("EnvironmentError", <<"APIFY_API_TOKEN not set in .env">>),
                              "no_token")
             /\ UNCHANGED <<posts, snap, emb, backend>>
        ELSE IF ClusterFails(Dedup(items, 1, <<>>))
        THEN /\ result' = Res("scrape_account", username, <<force>>, EncodeFailure,
                              "cluster_failed")
             /\ UNCHANGED <<posts, snap, emb, backend>>
        ELSE /\ posts' = [posts EXCEPT ![u] = PostsFile(processed)]
             /\ emb' = [emb EXCEPT ![u] = EmbAfterBuild(u, processed)]
             /\ result' = Res("scrape_account", username, <<force>>,
                              IF backend THEN Ret(processed) ELSE EncodeFailure, "scraped")
             /\ UNCHANGED <<snap, backend>>

(***************************************************************************)
(* Helpers of the analytics: sums, stable orderings, insertion-ordered     *)
(* dicts (sequences of entries, in the order the keys were first set).     *)
(***************************************************************************)
RECURSIVE SumSeq(_, _)
SumSeq(xs, i) == IF i > Len(xs) THEN 0 ELSE xs[i] + SumSeq(xs, i + 1)
\* the sum of all elements but the first
SumAfterFirst(xs) == SumSeq(xs, 2)

Sum(xs) == SumSeq(xs, 1)

Take(xs, n) == SubSeq(xs, 1, IF n < Len(xs) THEN n ELSE Len(xs))

\* index i put ahead of every index of out whose key does not come before keys[i]
InsertAhead(out, keys, i, desc) ==
    LET ahead == {j \in 1..Len(out) :
                     IF desc THEN keys[out[j]] > keys[i] ELSE keys[out[j]] < keys[i]}
        at == IF ahead = {} THEN 0 ELSE CHOOSE j \in ahead : \A k \in ahead : k <= j
    IN  SubSeq(out, 1, at) \o <<i>> \o SubSeq(out, at + 1, Len(out))

\* index i put behind every index of out whose key does not come after keys[i]
InsertBehind(out, keys, i, desc) ==
    LET ahead == {j \in 1..Len(out) :
                     IF desc THEN keys[out[j]] >= keys[i] ELSE keys[out[j]] <= keys[i]}
        at == IF ahead = {} THEN 0 ELSE CHOOSE j \in ahead : \A k \in ahead : k <= j
    IN  SubSeq(out, 1, at) \o <<i>> \o SubSeq(out, at + 1, Len(out))

RECURSIVE OrderFrom(_, _, _, _)
OrderFrom(out, keys, i, desc) ==
    IF i > Len(keys) THEN out
    ELSE OrderFrom(InsertBehind(out, keys, i, desc), keys, i + 1, desc)

\* sorted(xs, key=..., reverse=desc): the stable order of the indices of keys
Order(keys, desc) == OrderFrom(<<>>, keys, 1, desc)
Permute(xs, order) == [i \in 1..Len(order) |-> xs[order[i]]]
SortedAsc(xs) == Permute(xs, Order(xs, FALSE))

\* the place of a month key in string order
MonthOrd(m) ==
    CASE m = "2026-08" -> 202608
      [] m = "2026-09" -> 202609
      [] m = "2026-10" -> 202610
      [] m = "2026-11" -> 202611
      [] OTHER -> 0

HasKey(d, key) == \E i \in 1..Len(d) : d[i].key = key

\* d[key]["count"] += 1; d[key]["likes"] += ...; d[key]["comments"] += ... on a defaultdict
Bump(d, key, p) ==
    IF HasKey(d, key)
    THEN [i \in 1..Len(d) |->
            IF d[i].key = key
            THEN [d[i] EXCEPT !.count = @ + 1, !.likes = @ + p.like_count,
                              !.comments = @ + p.comment_count]
            ELSE d[i]]
    ELSE Append(d, [key |-> key, count |-> 1, likes |-> p.like_count,
                    comments |-> p.comment_count])

RECURSIVE TallyBy(_, _, _, _)
\* the loop over posts that tallies by media_type or by month
TallyBy(d, ps, i, field) ==
    IF i > Len(ps) THEN d
    ELSE TallyBy(Bump(d, IF field = "month" THEN ps[i].month ELSE ps[i].media_type, ps[i]),
                 ps, i + 1, field)

\* the entries in the order the months were first met
InMonthsMet(d) == d

\* sorted(monthly.items())
SortedByMonth(d) == Permute(d, Order([i \in 1..Len(d) |-> MonthOrd(d[i].key)], FALSE))

(***************************************************************************)
(* get_engagement_summary.                                                 *)
(***************************************************************************)
\* the last post of the largest like_count
BestLast(ps) ==
    LET top == CHOOSE i \in 1..Len(ps) :
                  \A j \in 1..Len(ps) :
                     ps[j].like_count < ps[i].like_count
                        \/ (ps[j].like_count = ps[i].like_count /\ j <= i)
    IN  ps[top]

\* max(posts, key=like_count): the first post of the largest like_count
Best(ps) ==
    LET top == CHOOSE i \in 1..Len(ps) :
                  /\ \A j \in 1..Len(ps) : ps[j].like_count <= ps[i].like_count
                  /\ \A j \in 1..(i - 1) : ps[j].like_count < ps[i].like_count
    IN  ps[top]

\* the upper of the two middle elements when there are two
MedianUpper(likes) == SortedAsc(likes)[(Len(likes) \div 2) + 1]

\* s[n // 2] if n % 2 else (s[n // 2 - 1] + s[n // 2]) // 2, s = sorted(likes)
Median(likes) ==
    LET sorted == SortedAsc(likes)
        n == Len(sorted)
    IN  IF n % 2 = 1 THEN sorted[(n \div 2) + 1]
        ELSE (sorted[n \div 2] + sorted[(n \div 2) + 1]) \div 2

Averages(d) ==
    [i \in 1..Len(d) |->
        [key |-> d[i].key, post_count |-> d[i].count,
         avg_likes |-> d[i].likes \div d[i].count,
         avg_comments |-> d[i].comments \div d[i].count]]

EngagementOf(username, ps) ==
    LET likes == [i \in 1..Len(ps) |-> ps[i].like_count]
        comments == [i \in 1..Len(ps) |-> ps[i].comment_count]
        best == Best(ps)
    IN  [username |-> username,
         total_posts |-> Len(ps),
         total_likes |-> Sum(likes),
         total_comments |-> Sum(comments),
         avg_likes |-> Sum(likes) \div Len(likes),
         median_likes |-> Median(likes),
         avg_comments |-> Sum(comments) \div Len(comments),
         best_post |-> [post_id |-> best.post_id, url |-> best.url,
                        like_count |-> best.like_count,
                        comment_count |-> best.comment_count,
                        media_type |-> best.media_type,
                        caption_preview |-> Preview(best.caption, BestPreviewLen)],
         media_breakdown |-> Averages(TallyBy(<<>>, ps, 1, "media_type")),
         monthly_trend |-> Averages(SortedByMonth(TallyBy(<<>>, ps, 1, "month")))]

EngagementOutcome(username) ==
    IF ReadPosts(username).kind = "raise" THEN ReadPosts(username)
    ELSE IF ReadPosts(username).value = <<>> THEN ErrDict(<<"No posts found.">>)
    ELSE Ret(EngagementOf(username, ReadPosts(username).value))

get_engagement_summary(username) ==
    /\ result' = Res("get_engagement_summary", username, <<>>, EngagementOutcome(username), "")
    /\ UNCHANGED <<posts, snap, emb, backend>>

(***************************************************************************)
(* get_hashtag_analysis.                                                   *)
(***************************************************************************)
RECURSIVE TallyTagsOnce(_, _, _, _)
\* the tallies of one post, a hashtag counted for the first post that carries it
TallyTagsOnce(d, p, tags, i) ==
    IF i > Len(tags) THEN d
    ELSE TallyTagsOnce(IF HasKey(d, tags[i]) THEN d ELSE Bump(d, tags[i], p), p, tags, i + 1)

RECURSIVE TallyTags(_, _, _, _)
\* for tag in p["hashtags"]: the tallies of one post
TallyTags(d, p, tags, i) ==
    IF i > Len(tags) THEN d ELSE TallyTags(Bump(d, tags[i], p), p, tags, i + 1)

RECURSIVE TallyHashtags(_, _, _)
TallyHashtags(d, ps, i) ==
    IF i > Len(ps) THEN d
    ELSE TallyHashtags(TallyTags(d, ps[i], ps[i].hashtags, 1), ps, i + 1)

HashtagRows(ps) ==
    LET stats == TallyHashtags(<<>>, ps, 1)
        rows == [i \in 1..Len(stats) |->
                    [hashtag |-> HashtagId(stats[i].key),
                     frequency |-> stats[i].count,
                     avg_likes |-> stats[i].likes \div stats[i].count,
                     avg_comments |-> stats[i].comments \div stats[i].count]]
    IN  \* rows.sort(key=frequency, reverse=True)
        Permute(rows, Order([i \in 1..Len(rows) |-> rows[i].frequency], TRUE))

HashtagsOf(username, ps) ==
    LET rows == HashtagRows(ps)
    IN  [username |-> username,
         total_unique_hashtags |-> Len(rows),
         top_by_frequency |-> Take(rows, TopByFrequency),
         top_by_avg_likes |->
             Take(Permute(rows, Order([i \in 1..Len(rows) |-> rows[i].avg_likes], TRUE)),
                  TopByAvgLikes)]

HashtagOutcome(username) ==
    IF ReadPosts(username).kind = "raise" THEN ReadPosts(username)
    ELSE Ret(HashtagsOf(username, ReadPosts(username).value))

get_hashtag_analysis(username) ==
    /\ result' = Res("get_hashtag_analysis", username, <<>>, HashtagOutcome(username), "")
    /\ UNCHANGED <<posts, snap, emb, backend>>

(***************************************************************************)
(* get_monthly_breakdown.                                                  *)
(***************************************************************************)
\* monthly[m]["media"][media_type] += 1
BumpMix(mix, mt) ==
    IF HasKey(mix, mt)
    THEN [i \in 1..Len(mix) |-> IF mix[i].key = mt THEN [mix[i] EXCEPT !.count = @ + 1]
                                ELSE mix[i]]
    ELSE Append(mix, [key |-> mt, count |-> 1])

BumpMonth(d, p) ==
    IF HasKey(d, p.month)
    THEN [i \in 1..Len(d) |->
            IF d[i].key = p.month
            THEN [d[i] EXCEPT !.count = @ + 1, !.likes = @ + p.like_count,
                              !.comments = @ + p.comment_count,
                              !.media = BumpMix(@, p.media_type)]
            ELSE d[i]]
    ELSE Append(d, [key |-> p.month, count |-> 1, likes |-> p.like_count,
                    comments |-> p.comment_count,
                    media |-> <<[key |-> p.media_type, count |-> 1]>>])

RECURSIVE TallyMonths(_, _, _)
TallyMonths(d, ps, i) ==
    IF i > Len(ps) THEN d ELSE TallyMonths(BumpMonth(d, ps[i]), ps, i + 1)

MonthlyOf(ps) ==
    LET monthly == SortedByMonth(TallyMonths(<<>>, ps, 1))
    IN  [i \in 1..Len(monthly) |->
            [key |-> monthly[i].key,
             posts |-> monthly[i].count,
             total_likes |-> monthly[i].likes,
             avg_likes |-> monthly[i].likes \div monthly[i].count,
             avg_comments |-> monthly[i].comments \div monthly[i].count,
             media_mix |-> monthly[i].media]]

MonthlyOutcome(username) ==
    IF ReadPosts(username).kind = "raise" THEN ReadPosts(username)
    ELSE Ret(MonthlyOf(ReadPosts(username).value))

get_monthly_breakdown(username) ==
    /\ result' = Res("get_monthly_breakdown", username, <<>>, MonthlyOutcome(username), "")
    /\ UNCHANGED <<posts, snap, emb, backend>>

(***************************************************************************)
(* find_similar_posts.                                                     *)
(***************************************************************************)
\* post_map[pid]: the last post of that id
PostMap(ps, pid) ==
    ps[CHOOSE i \in 1..Len(ps) :
          ps[i].post_id = pid /\ \A j \in (i + 1)..Len(ps) : ps[j].post_id # pid]

\* round(num / den, 4), in units of 1/SimilarityScale
Round4(num, den) == (2 * SimilarityScale * num + den) \div (2 * den)

\* _load_embeddings: the stored record, {} when there is no file, or the load failure
LoadEmbeddings(u) ==
    CASE emb[u].state = "absent"  -> Ret(NoEmb)
      [] emb[u].state = "garbage" -> Raise("UnpicklingError", <<"unpickling failed">>)
      [] OTHER                    -> Ret(emb[u])

\* freshness that wants the ids in the order of the posts
IsFreshInOrder(E, ps) ==
    /\ E.state = "ok"
    /\ E.model = EMBEDDING_MODEL
    /\ E.ids = [i \in 1..Len(ps) |-> ps[i].post_id]

\* _embeddings_are_fresh on a loaded record E
IsFresh(E, ps) ==
    /\ E.state = "ok"
    /\ E.model = EMBEDDING_MODEL
    /\ Range(E.ids) = IdsOf(ps)

\* the stored record kept for the ranking whenever it lists some post
EmbedDataKept(u, ps) ==
    IF emb[u].state = "ok" /\ emb[u].ids # <<>> THEN emb[u]
    ELSE IF IsFresh(EmbeddingsOf(ps), ps) THEN EmbeddingsOf(ps)
    ELSE NoEmb

\* the embed_data find_similar_posts ranks with: the fresh record, else the one
\* build_embeddings has just written, else none
EmbedData(u, ps) ==
    IF IsFresh(emb[u], ps) THEN emb[u]
    ELSE IF IsFresh(EmbeddingsOf(ps), ps) THEN EmbeddingsOf(ps)
    ELSE NoEmb

\* id_index[pid]: the last place of pid in ids
IdIndex(ids, pid) ==
    CHOOSE i \in 1..Len(ids) : ids[i] = pid /\ \A j \in (i + 1)..Len(ids) : ids[j] # pid

\* the entries ranked by the key scores, best first, cut to top_k
Ranked(entries, scores, top_k) == Take(Permute(entries, Order(scores, TRUE)), top_k)

\* every post of the record, the queried one too
OthersAndSelf(ids, post_id) == [i \in 1..Len(ids) |-> i]

\* the other posts of the record: if ids[i] != post_id
Others(ids, post_id) == SelectSeq([i \in 1..Len(ids) |-> i], LAMBDA i : ids[i] # post_id)

CosineRanking(E, ps, post_id, top_k) ==
    LET idx == IdIndex(E.ids, post_id)
        others == Others(E.ids, post_id)
        scores == [j \in 1..Len(others) |-> Dot(E.vectors[others[j]], E.vectors[idx])]
        ranked == Ranked(others, scores, top_k)
        known == SelectSeq(ranked, LAMBDA i : E.ids[i] \in IdsOf(ps))
    IN  [j \in 1..Len(known) |->
            LET pid == E.ids[known[j]]
            IN  [post_id |-> pid,
                 similarity |-> Round4(Dot(E.vectors[known[j]], E.vectors[idx]), 25),
                 like_count |-> PostMap(ps, pid).like_count,
                 media_type |-> PostMap(ps, pid).media_type,
                 caption_preview |-> Preview(PostMap(ps, pid).caption, SimilarPreviewLen)]]

\* the other posts of the collection: if p["post_id"] == post_id: continue
OtherPosts(ps, post_id) == SelectSeq(ps, LAMBDA p : p.post_id # post_id)

\* the share of the hashtags of the queried post that the other post carries
JaccardOverTarget(target_tags, p_tags) ==
    IF target_tags # {}
    THEN Round4(Cardinality(target_tags \cap p_tags), Cardinality(target_tags))
    ELSE 0

\* round(len(inter) / len(union), 4) if union else 0.0
Jaccard(target_tags, p_tags) ==
    LET union == target_tags \cup p_tags
        inter == target_tags \cap p_tags
    IN  IF union # {} THEN Round4(Cardinality(inter), Cardinality(union)) ELSE 0

JaccardRanking(ps, post_id, top_k) ==
    LET target_tags == Range(PostMap(ps, post_id).hashtags)
        others == OtherPosts(ps, post_id)
        sims == [j \in 1..Len(others) |->
                    LET p_tags == Range(others[j].hashtags)
                    IN  [post_id |-> others[j].post_id,
                         similarity |-> Jaccard(target_tags, p_tags),
                         shared_hashtags |-> target_tags \cap p_tags,
                         like_count |-> others[j].like_count,
                         media_type |-> others[j].media_type,
                         caption_preview |-> Preview(others[j].caption, SimilarPreviewLen)]]
    IN  Ranked(sims, [j \in 1..Len(sims) |-> sims[j].similarity], top_k)

\* {post_id!r}: the string between quotes
Repr(str) == <<"'", str, "'">>

\* the branch find_similar_posts(username, post_id, top_k) takes
SimilarPath(username, post_id) ==
    LET u == NormUser(username)
        ps == posts[u].list
    IN  IF ~posts[u].exists THEN "no_data"
        ELSE IF post_id \notin IdsOf(ps) THEN "not_found"
        ELSE IF LoadEmbeddings(u).kind = "raise" THEN "load_failed"
        ELSE IF ~IsFresh(emb[u], ps) /\ ~backend THEN "encode_failed"
        ELSE IF EmbedData(u, ps).state = "ok" /\ post_id \in Range(EmbedData(u, ps).ids)
             THEN "bge_cosine"
        ELSE "hashtag_jaccard_fallback"

SimilarOutcome(username, post_id, top_k) ==
    LET u == NormUser(username)
        ps == posts[u].list
        path == SimilarPath(username, post_id)
    IN  CASE path = "no_data" -> ReadPosts(username)
          [] path = "not_found" ->
                ErrDict(<<"post_id ", Repr(post_id), " not found in @", username, ".">>)
          [] path = "load_failed" -> LoadEmbeddings(u)
          [] path = "encode_failed" -> EncodeFailure
          [] path = "bge_cosine" ->
                Ret([query_post_id |-> post_id, method |-> "bge_cosine",
                     model |-> EMBEDDING_MODEL,
                     similar_posts |-> CosineRanking(EmbedData(u, ps), ps, post_id, top_k)])
          [] OTHER ->
                Ret([query_post_id |-> post_id, method |-> "hashtag_jaccard_fallback",
                     warning |-> "Embedding model unavailable; using hashtag overlap instead.",
                     similar_posts |-> JaccardRanking(ps, post_id, top_k)])

\* the embeddings brought up to date before post_id is looked up
EmbAfterSimilarEager(username, post_id) ==
    LET u == NormUser(username)
    IN  IF posts[u].exists /\ LoadEmbeddings(u).kind # "raise" /\ ~IsFresh(emb[u], posts[u].list)
        THEN EmbAfterBuild(u, posts[u].list)
        ELSE emb[u]

\* if not fresh: build_embeddings(posts, username), on a call that goes on to rank
Rebuilds(username, post_id) ==
    /\ SimilarPath(username, post_id) \in {"bge_cosine", "hashtag_jaccard_fallback"}
    /\ ~IsFresh(emb[NormUser(username)], posts[NormUser(username)].list)

\* the embeddings file when find_similar_posts(username, post_id, top_k) ends
EmbAfterSimilar(username, post_id) ==
    LET u == NormUser(username)
    IN  IF Rebuilds(username, post_id) THEN EmbAfterBuild(u, posts[u].list) ELSE emb[u]

find_similar_posts(username, post_id, top_k) ==
    /\ emb' = [emb EXCEPT ![NormUser(username)] = EmbAfterSimilar(username, post_id)]
    /\ result' = [Res("find_similar_posts", username, <<post_id, top_k>>,
                      SimilarOutcome(username, post_id, top_k),
                      SimilarPath(username, post_id))
                     EXCEPT !.again = Rebuilds(username, post_id)]
    /\ UNCHANGED <<posts, snap, backend>>

(***************************************************************************)
(* extract_subgraph and extract_comparison_subgraph.  filters is a dict:   *)
(* a function over the keys it holds; NoFilters stands for None and {}.    *)
(***************************************************************************)
NoFilters == <<>>

\* the posts that pass any one of the filters
FilteredByAny(ps, filters) ==
    IF DOMAIN filters = {} THEN ps
    ELSE SelectSeq(ps, LAMBDA p :
            \/ "month" \in DOMAIN filters /\ p.month = filters["month"]
            \/ "media_type" \in DOMAIN filters /\ p.media_type = filters["media_type"]
            \/ "min_likes" \in DOMAIN filters /\ p.like_count >= filters["min_likes"])

\* the three list comprehensions under "if filters:"
Filtered(ps, filters) ==
    LET byMonth == IF "month" \in DOMAIN filters
                   THEN SelectSeq(ps, LAMBDA p : p.month = filters["month"]) ELSE ps
        byMedia == IF "media_type" \in DOMAIN filters
                   THEN SelectSeq(byMonth, LAMBDA p : p.media_type = filters["media_type"])
                   ELSE byMonth
    IN  IF "min_likes" \in DOMAIN filters
        THEN SelectSeq(byMedia, LAMBDA p : p.like_count >= filters["min_likes"])
        ELSE byMedia

\* the largest like_count of the whole collection of the account
MaxLikesOfAll(ps) ==
    LET likes == UNION {{posts[d].list[i].like_count : i \in 1..Len(posts[d].list)} :
                           d \in {d \in Dirs : ps # <<>> /\ \E i \in 1..Len(posts[d].list) :
                                                    posts[d].list[i] = ps[1]}}
    IN  IF likes = {} THEN 1 ELSE CHOOSE m \in likes : \A x \in likes : x <= m

\* max((p["like_count"] for p in posts), default=1)
MaxLikes(ps) ==
    IF ps = <<>> THEN 1
    ELSE LET likes == {ps[i].like_count : i \in 1..Len(ps)}
         IN  CHOOSE m \in likes : \A x \in likes : x <= m

\* int(12 + 30 * (like_count / max(max_likes, 1)))
PostSize(p, max_likes) ==
    12 + (30 * p.like_count) \div (IF max_likes > 1 THEN max_likes ELSE 1)

\* a shared node appended each time its id is met, and its edge
LinkAnew(acc, from, id, node, label) ==
    [nodes |-> Append(acc.nodes, node),
     edges |-> Append(acc.edges, [from |-> from, to |-> id, label |-> label]),
     seen  |-> acc.seen \cup {id}]

\* a shared node appended the first time its id is met, and its edge
Link(acc, from, id, node, label) ==
    [nodes |-> IF id \in acc.seen THEN acc.nodes ELSE Append(acc.nodes, node),
     edges |-> Append(acc.edges, [from |-> from, to |-> id, label |-> label]),
     seen  |-> acc.seen \cup {id}]

RECURSIVE LinkHashtags(_, _, _, _)
LinkHashtags(acc, from, tags, i) ==
    IF i > Len(tags) THEN acc
    ELSE LET tid == HashtagId(tags[i])
         IN  LinkHashtags(Link(acc, from, tid,
                               [id |-> tid, label |-> tid, group |-> "hashtag", size |-> 14],
                               "HAS_HASHTAG"),
                          from, tags, i + 1)

RECURSIVE LinkMentions(_, _, _, _)
LinkMentions(acc, from, ms, i) ==
    IF i > Len(ms) THEN acc
    ELSE LET mid == MentionId(ms[i])
         IN  LinkMentions(Link(acc, from, mid,
                               [id |-> mid, label |-> mid, group |-> "mention", size |-> 16],
                               "MENTIONS"),
                          from, ms, i + 1)

RECURSIVE LinkThemes(_, _, _, _)
LinkThemes(acc, from, ts, i) ==
    IF i > Len(ts) THEN acc
    ELSE LET thid == ThemeId(ts[i])
         IN  LinkThemes(Link(acc, from, thid,
                             [id |-> thid, label |-> ThemeLabel(ts[i]), group |-> "theme",
                              size |-> 22],
                             "THEME"),
                        from, ts, i + 1)

\* one pass of the loop over posts: the post node pid, its POSTED edge, its shared nodes
EmitPost(acc, brand, pid, label, group, p, max_likes) ==
    LET a0 == [acc EXCEPT
                 !.nodes = Append(@, [id |-> pid, label |-> label, group |-> group,
                                      size |-> PostSize(p, max_likes),
                                      like_count |-> p.like_count,
                                      comment_count |-> p.comment_count,
                                      media_type |-> p.media_type, url |-> p.url,
                                      caption |-> Preview(p.caption, NodeCaptionLen),
                                      theme_scores |-> p.theme_scores]),
                 !.edges = Append(@, [from |-> brand, to |-> pid, label |-> "POSTED"])]
        a1 == LinkHashtags(a0, pid, p.hashtags, 1)
        a2 == LinkMentions(a1, pid, p.mentions, 1)
        a3 == LinkThemes(a2, pid, p.themes, 1)
        a4 == Link(a3, pid, MonthId(p.month),
                   [id |-> MonthId(p.month), label |-> p.month, group |-> "month", size |-> 24],
                   "BELONGS_TO")
    IN  Link(a4, pid, MediaId(p.media_type),
             [id |-> MediaId(p.media_type), label |-> Upper(p.media_type),
              group |-> "media_type", size |-> 20],
             "IS_TYPE")

RECURSIVE EmitPosts(_, _, _, _, _)
\* extract_subgraph's loop: ids are the bare username and post_id
EmitPosts(acc, username, ps, i, max_likes) ==
    IF i > Len(ps) THEN acc
    ELSE EmitPosts(EmitPost(acc, <<username>>, <<ps[i].post_id>>,
                            <<"Post\n", ps[i].post_id>>, "post", ps[i], max_likes),
                   username, ps, i + 1, max_likes)

\* the meta that counts every id of seen that is no theme, month or media type
\* as a hashtag
SubgraphMetaLoose(username, ps, seen, filters) ==
    [username |-> username,
     total_posts |-> Len(ps),
     total_hashtags |-> Cardinality({k \in seen : Len(k) = 2}),
     total_mentions |-> Cardinality({k \in seen : k[1] = "@"}),
     total_themes |-> Cardinality({k \in seen : Len(k) > 1 /\ k[1] = "theme" /\ k[2] = ":"}),
     filters_applied |-> filters]

\* "meta": the ids of seen are counted by their prefix "#", "@", "theme:"
SubgraphMeta(username, ps, seen, filters) ==
    [username |-> username,
     total_posts |-> Len(ps),
     total_hashtags |-> Cardinality({k \in seen : k[1] = "#"}),
     total_mentions |-> Cardinality({k \in seen : k[1] = "@"}),
     total_themes |-> Cardinality({k \in seen : Len(k) > 1 /\ k[1] = "theme" /\ k[2] = ":"}),
     filters_applied |-> filters]

SubgraphOf(username, all, filters) ==
    LET ps == Filtered(all, filters)
        start == [nodes |-> <<[id |-> <<username>>, label |-> <<"@", username>>,
                               group |-> "brand", size |-> 50]>>,
                  edges |-> <<>>, seen |-> {}]
        out == EmitPosts(start, username, ps, 1, MaxLikes(ps))
    IN  [nodes |-> out.nodes,
         edges |-> out.edges,
         meta |-> SubgraphMeta(username, ps, out.seen, filters)]

SubgraphOutcome(username, filters) ==
    IF ReadPosts(username).kind = "raise" THEN ReadPosts(username)
    ELSE Ret(SubgraphOf(username, ReadPosts(username).value, filters))

extract_subgraph(username, filters) ==
    /\ result' = Res("extract_subgraph", username, <<filters>>,
                     SubgraphOutcome(username, filters), "")
    /\ UNCHANGED <<posts, snap, emb, backend>>

\* chr(ord('a') + i) for the i-th account, counted from 0
Letter(i) == CASE i = 1 -> "a" [] i = 2 -> "b" [] i = 3 -> "c" [] OTHER -> "d"

RECURSIVE EmitAccountPostsBare(_, _, _, _, _, _)
\* the comparison's loop over posts with the bare post_id as the id of a post
EmitAccountPostsBare(acc, username, k, ps, i, max_likes) ==
    IF i > Len(ps) THEN acc
    ELSE EmitAccountPostsBare(
             EmitPost(acc, <<"brand", ":", username>>, <<ps[i].post_id>>,
                      <<username, "\n", ps[i].post_id>>, <<"post_", Letter(k)>>,
                      ps[i], max_likes),
             username, k, ps, i + 1, max_likes)

RECURSIVE EmitAccountPosts(_, _, _, _, _, _)
\* the comparison's loop over posts: ids carry the account
EmitAccountPosts(acc, username, k, ps, i, max_likes) ==
    IF i > Len(ps) THEN acc
    ELSE EmitAccountPosts(
             EmitPost(acc, <<"brand", ":", username>>, <<username, ":", ps[i].post_id>>,
                      <<username, "\n", ps[i].post_id>>, <<"post_", Letter(k)>>,
                      ps[i], max_likes),
             username, k, ps, i + 1, max_likes)

\* one pass of the loop over usernames
EmitAccount(acc, username, k, all, filters) ==
    LET ps == Filtered(all, filters)
        brand_id == <<"brand", ":", username>>
        a0 == IF brand_id \in acc.seen THEN acc
              ELSE [acc EXCEPT
                      !.nodes = Append(@, [id |-> brand_id, label |-> <<"@", username>>,
                                           group |-> <<"brand_", Letter(k)>>, size |-> 50]),
                      !.seen = @ \cup {brand_id}]
    IN  EmitAccountPosts(a0, username, k, ps, 1, MaxLikes(ps))

RECURSIVE EmitAccounts(_, _, _, _)
EmitAccounts(acc, usernames, k, filters) ==
    IF k > Len(usernames) THEN acc
    ELSE EmitAccounts(EmitAccount(acc, usernames[k], k, ReadPosts(usernames[k]).value, filters),
                      usernames, k + 1, filters)

ComparisonOf(usernames, filters) ==
    LET out == EmitAccounts([nodes |-> <<>>, edges |-> <<>>, seen |-> {}], usernames, 1, filters)
    IN  [nodes |-> out.nodes,
         edges |-> out.edges,
         meta |-> [usernames |-> usernames,
                   total_nodes |-> Len(out.nodes),
                   total_edges |-> Len(out.edges),
                   filters_applied |-> filters]]

\* the first account of the list whose posts are missing stops the loop
ComparisonOutcome(usernames, filters) ==
    LET missing == {k \in 1..Len(usernames) : ReadPosts(usernames[k]).kind = "raise"}
    IN  IF missing # {}
        THEN ReadPosts(usernames[CHOOSE k \in missing : \A j \in missing : k <= j])
        ELSE Ret(ComparisonOf(usernames, filters))

extract_comparison_subgraph(usernames, filters) ==
    /\ result' = Res("extract_comparison_subgraph", "", <<usernames, filters>>,
                     ComparisonOutcome(usernames, filters), "")
    /\ UNCHANGED <<posts, snap, emb, backend>>

(***************************************************************************)
(* get_graph_context.                                                      *)
(***************************************************************************)
ContextOf(username, ps) ==
    [username |-> username,
     period |-> <<"last ", DAYS_BACK, " days">>,
     engagement |-> EngagementOutcome(username).value,
     hashtags |-> HashtagOutcome(username).value,
     monthly |-> MonthlyOutcome(username).value,
     posts |-> [i \in 1..Len(ps) |->
                  [post_id |-> ps[i].post_id, url |-> ps[i].url, caption |-> ps[i].caption,
                   hashtags |-> ps[i].hashtags, themes |-> ps[i].themes,
                   theme_scores |-> ps[i].theme_scores,
                   like_count |-> ps[i].like_count, comment_count |-> ps[i].comment_count,
                   media_type |-> ps[i].media_type, month |-> ps[i].month,
                   timestamp |-> ps[i].timestamp]]]

\* get_graph_context that takes a missing collection for an empty one
ContextOutcomeLenient(username) ==
    IF ReadPosts(username).kind = "raise" \/ ReadPosts(username).value = <<>>
    THEN ErrDict(<<"No posts for @", username, ".">>)
    ELSE Ret(ContextOf(username, ReadPosts(username).value))

ContextOutcome(username) ==
    IF ReadPosts(username).kind = "raise" THEN ReadPosts(username)
    ELSE IF ReadPosts(username).value = <<>> THEN ErrDict(<<"No posts for @", username, ".">>)
    ELSE Ret(ContextOf(username, ReadPosts(username).value))

get_graph_context(username) ==
    /\ result' = Res("get_graph_context", username, <<>>, ContextOutcome(username), "")
    /\ UNCHANGED <<posts, snap, emb, backend>>

(***************************************************************************)
(* get_comparison_context.                                                 *)
(***************************************************************************)
\* the place of a hashtag or theme in string order
WordOrd(w) ==
    CASE w = "gym" -> 1
      [] w = "run" -> 2
      [] w = "summer_run" -> 3
      [] w = "t01" -> 4
      [] w = "t02" -> 5
      [] w = "t03" -> 6
      [] w = "t04" -> 7
      [] w = "t05" -> 8
      [] w = "t06" -> 9
      [] w = "t07" -> 10
      [] w = "t08" -> 11
      [] w = "t09" -> 12
      [] w = "t10" -> 13
      [] w = "t11" -> 14
      [] w = "t12" -> 15
      [] w = "t13" -> 16
      [] w = "t14" -> 17
      [] w = "t15" -> 18
      [] w = "t16" -> 19
      [] w = "t17" -> 20
      [] w = "t18" -> 21
      [] w = "t19" -> 22
      [] w = "t20" -> 23
      [] w = "t21" -> 24
      [] w = "t22" -> 25
      [] w = "t23" -> 26
      [] w = "t24" -> 27
      [] w = "t25" -> 28
      [] w = "theme_0" -> 29

RECURSIVE SortedWords(_)
\* sorted(shared)
SortedWords(S) ==
    IF S = {} THEN <<>>
    ELSE LET first == CHOOSE w \in S : \A v \in S : WordOrd(w) <= WordOrd(v)
         IN  <<first>> \o SortedWords(S \ {first})

\* result["accounts"][username] = ...
SetEntry(accounts, username, entry) ==
    IF HasKey(accounts, username)
    THEN [i \in 1..Len(accounts) |->
            IF accounts[i].key = username THEN [key |-> username, value |-> entry]
            ELSE accounts[i]]
    ELSE Append(accounts, [key |-> username, value |-> entry])

\* {r["hashtag"].lstrip("#") for r in ctx["hashtags"].get("top_by_frequency", [])}
ContextTags(ctx) ==
    {ctx.hashtags.top_by_frequency[i].hashtag[2] : i \in 1..Len(ctx.hashtags.top_by_frequency)}

\* {t for p in ctx["posts"] for t in p.get("themes", [])}
ContextThemes(ctx) == UNION {Range(ctx.posts[i].themes) : i \in 1..Len(ctx.posts)}

\* the body of the loop that leaves an account that failed out of the result
CompareOneSkipping(acc, username) ==
    LET ctx == ContextOutcome(username)
    IN  IF ctx.kind # "value" THEN acc
        ELSE [acc EXCEPT !.accounts = SetEntry(@, username, ctx.value),
                         !.hashtag_sets = Append(@, ContextTags(ctx.value)),
                         !.theme_sets = Append(@, ContextThemes(ctx.value))]

\* the body of the loop over usernames: get_graph_context raises for missing posts
\* and ctx["hashtags"] raises KeyError for the error record of an empty collection;
\* except Exception stores str(e) as the account's entry
CompareOne(acc, username) ==
    LET ctx == ContextOutcome(username)
    IN  IF ctx.kind = "raise"
        THEN [acc EXCEPT !.accounts = SetEntry(@, username, [error |-> ctx.value.msg])]
        ELSE IF ctx.kind = "error"
        THEN [acc EXCEPT !.accounts = SetEntry(@, username, [error |-> <<"'hashtags'">>])]
        ELSE [acc EXCEPT !.accounts = SetEntry(@, username, ctx.value),
                         !.hashtag_sets = Append(@, ContextTags(ctx.value)),
                         !.theme_sets = Append(@, ContextThemes(ctx.value))]

RECURSIVE CompareAll(_, _, _)
CompareAll(acc, usernames, k) ==
    IF k > Len(usernames) THEN acc
    ELSE CompareAll(CompareOne(acc, usernames[k]), usernames, k + 1)

RECURSIVE Intersected(_, _, _)
\* shared = sets[0]; for s in sets[1:]: shared &= s
Intersected(shared, sets, k) ==
    IF k > Len(sets) THEN shared ELSE Intersected(shared \cap sets[k], sets, k + 1)

\* if len(sets) >= 2: sorted(shared), else the [] the result starts with
SharedOf(sets) ==
    IF Len(sets) >= 2 THEN SortedWords(Intersected(sets[1], sets, 2)) ELSE <<>>

ComparisonContextOutcome(usernames) ==
    LET out == CompareAll([accounts |-> <<>>, hashtag_sets |-> <<>>, theme_sets |-> <<>>],
                          usernames, 1)
    IN  Ret([comparison_period |-> <<"last ", DAYS_BACK, " days">>,
             accounts |-> out.accounts,
             shared_hashtags |-> SharedOf(out.hashtag_sets),
             shared_themes |-> SharedOf(out.theme_sets)])

get_comparison_context(usernames) ==
    /\ result' = Res("get_comparison_context", "", <<usernames>>,
                     ComparisonContextOutcome(usernames), "")
    /\ UNCHANGED <<posts, snap, emb, backend>>

(***************************************************************************)
(* The data directory is the user's: processed.json can be deleted between *)
(* two calls.                                                              *)
(***************************************************************************)
processed_removed(u) ==
    /\ posts[u].exists
    /\ posts' = [posts EXCEPT ![u] = NoPosts]
    /\ UNCHANGED <<snap, emb, backend, result>>

\* encode starts or stops answering (memory, device, model files)
backend_flips ==
    /\ backend' = ~backend
    /\ UNCHANGED <<posts, snap, emb, result>>

(***************************************************************************)
(* The store at start: nothing ingested; a graph or embeddings file left   *)
(* by an earlier version may be present and unreadable or out of date.     *)
(***************************************************************************)
Active == {"nike"}
ActiveHandles == {"nike"}

OldEmb == EmbFile(<<>>, <<>>, "all-MiniLM-L6-v2")

NoCall == Res("none", "", <<>>, Ret(<<>>), "")

Init ==
    /\ posts = [d \in Dirs |-> NoPosts]
    /\ snap \in {f \in [Dirs -> {NoSnap, GarbageSnap, WrongTypeSnap}] :
                    \A d \in Dirs \ Active : f[d] = NoSnap}
    /\ emb \in {f \in [Dirs -> {NoEmb, GarbageEmb, OldEmb}] :
                    \A d \in Dirs \ Active : f[d] = NoEmb}
    /\ backend \in BOOLEAN
    /\ result = NoCall

\* a scrape: any item list when the Apify run can start, none when it cannot
Scrapes(username) ==
    \E force \in BOOLEAN :
        \/ \E items \in ItemLists : scrape_account(username, force, items, TRUE)
        \/ scrape_account(username, force, <<>>, FALSE)

(***************************************************************************)
(* The graph store: scraping, the loss of processed.json, build_graph.     *)
(***************************************************************************)
Next ==
    \/ \E username \in ActiveHandles : Scrapes(username)
    \/ \E u \in Active : processed_removed(u)
    \/ \E username \in Handles \ {"adidas"}, force_rebuild \in BOOLEAN :
          build_graph(username, force_rebuild)

Spec == Init /\ [][Next]_vars


(***************************************************************************)
(* The read side: the analytics, the subgraph views and the context over   *)
(* whatever has been scraped; adidas is never ingested.                    *)
(***************************************************************************)
FilterSets ==
    {NoFilters, [min_likes |-> 60], [month |-> "2026-10"], [month |-> "2026-09"],
     [media_type |-> "image", min_likes |-> 50],
     [month |-> "2026-10", media_type |-> "image", min_likes |-> 105]}

UsernameLists == {<<"nike">>, <<"nike", "adidas">>}

InitRead ==
    /\ posts = [d \in Dirs |-> NoPosts]
    /\ snap = [d \in Dirs |-> NoSnap]
    /\ emb = [d \in Dirs |-> NoEmb]
    /\ backend = TRUE
    /\ result = NoCall

NextRead ==
    \/ \E username \in ActiveHandles : Scrapes(username)
    \/ \E username \in ActiveHandles, items \in TagLists :
          scrape_account(username, TRUE, items, TRUE)
    \/ \E username \in ActiveHandles, items \in QuietLists :
          scrape_account(username, TRUE, items, TRUE)
    \/ \E username \in Handles : get_engagement_summary(username)
    \/ \E username \in Handles : get_hashtag_analysis(username)
    \/ \E username \in Handles : get_monthly_breakdown(username)
    \/ \E username \in Handles, filters \in FilterSets : extract_subgraph(username, filters)
    \/ \E usernames \in UsernameLists, filters \in FilterSets :
          extract_comparison_subgraph(usernames, filters)
    \/ \E username \in Handles : get_graph_context(username)
    \/ \E username \in Handles, post_id \in PostIds \cup {UnknownId}, top_k \in 0..MaxK :
          find_similar_posts(username, post_id, top_k)

SpecRead == InitRead /\ [][NextRead]_vars

(***************************************************************************)
(* The similarity side: forced scrapes, the backend going up and down, the *)
(* loss of processed.json, find_similar_posts.                             *)
(***************************************************************************)
InitSimilar ==
    /\ posts = [d \in Dirs |-> NoPosts]
    /\ snap = [d \in Dirs |-> NoSnap]
    /\ emb \in {f \in [Dirs -> {NoEmb, GarbageEmb, OldEmb}] :
                    \A d \in Dirs \ Active : f[d] = NoEmb}
    /\ backend \in BOOLEAN
    /\ result = NoCall

NextSimilar ==
    \/ \E username \in ActiveHandles, items \in ItemLists :
          scrape_account(username, TRUE, items, TRUE)
    \/ \E username \in ActiveHandles, items \in TieLists :
          scrape_account(username, TRUE, items, TRUE)
    \/ \E u \in Active : processed_removed(u)
    \/ backend_flips
    \/ \E username \in ActiveHandles, post_id \in PostIds \cup {UnknownId}, top_k \in 0..MaxK :
          find_similar_posts(username, post_id, top_k)

SpecSimilar == InitSimilar /\ [][NextSimilar]_vars

(***************************************************************************)
(* The comparison side: two accounts scraped, and the views over lists of  *)
(* accounts.                                                               *)
(***************************************************************************)
\* runs of the two accounts: posts of the same ids, hashtags and themes
CompareLists == {<<>>, <<P2>>, <<P1, P3>>, <<P3, P1, P2>>}

\* lists of accounts as _comparison_visual passes them: stripped and lowercased
AccountLists == UsernameLists \cup {<<"adidas", "nike">>, <<"nike", "nike">>}

CompareFilters == {NoFilters, [min_likes |-> 60]}

InitCompare ==
    /\ posts = [d \in Dirs |-> NoPosts]
    /\ snap = [d \in Dirs |-> NoSnap]
    /\ emb = [d \in Dirs |-> NoEmb]
    /\ backend = TRUE
    /\ result = NoCall

NextCompare ==
    \/ \E username \in Dirs, items \in CompareLists :
          scrape_account(username, TRUE, items, TRUE)
    \/ \E usernames \in AccountLists, filters \in CompareFilters :
          extract_comparison_subgraph(usernames, filters)
    \/ \E usernames \in AccountLists \cup {<<>>} : get_comparison_context(usernames)

SpecCompare == InitCompare /\ [][NextCompare]_vars

(***************************************************************************)
(* Two accounts at rest: their posts stay as they are, the embedding       *)
(* records are missing or of an earlier model, the snapshots missing or    *)
(* unreadable, and every function of graph.py is called on them.           *)
(***************************************************************************)
InitFrame ==
    /\ posts \in {f \in [Dirs -> {PostsFile(<<P2>>), PostsFile(Clustered(<<P1, P3>>))}] :
                      f["adidas"] = PostsFile(<<P2>>)}
    /\ snap \in [Dirs -> {NoSnap, GarbageSnap}]
    /\ emb \in [Dirs -> {NoEmb, OldEmb}]
    /\ backend = TRUE
    /\ result = NoCall

NextFrame ==
    \/ \E username \in Dirs : get_engagement_summary(username)
    \/ \E username \in Dirs : get_hashtag_analysis(username)
    \/ \E username \in Dirs : get_monthly_breakdown(username)
    \/ \E username \in Dirs : extract_subgraph(username, NoFilters)
    \/ extract_comparison_subgraph(<<"nike", "adidas">>, NoFilters)
    \/ \E username \in Dirs : get_graph_context(username)
    \/ \E username \in Dirs : find_similar_posts(username, "p2", 1)
    \/ \E username \in Dirs, force_rebuild \in BOOLEAN : build_graph(username, force_rebuild)

SpecFrame == InitFrame /\ [][NextFrame]_vars

(***************************************************************************)
(* Properties of build_graph.                                              *)
(***************************************************************************)
OutEdges(G, n, rel) == {e \in Edges(G) : e.from = n /\ e.relation = rel}
InEdges(G, n, rel) == {e \in Edges(G) : e.to = n /\ e.relation = rel}
PostNodes(G) == {id \in DOMAIN G.node : "node_type" \in DOMAIN G.node[id] /\ G.node[id].node_type = "post"}

\* a step that is the call build_graph(username, force_rebuild)
BuildStep(username, force_rebuild) ==
    /\ result'.op = "build_graph"
    /\ result'.username = username
    /\ result'.arg = <<force_rebuild>>
    /\ build_graph(username, force_rebuild)

\* the graph G of account u holds post p as the graph invariant asks
PostWellFormed(G, u, p) ==
    LET n == PostNodeId(p.post_id)
    IN  /\ Cardinality({id \in PostNodes(G) : id = <<p.post_id>>}) = 1
        /\ OutEdges(G, n, "BELONGS_TO") =
               {[from |-> n, to |-> MonthId(p.month), relation |-> "BELONGS_TO"]}
        /\ OutEdges(G, n, "IS_TYPE") =
               {[from |-> n, to |-> MediaId(p.media_type), relation |-> "IS_TYPE"]}
        /\ InEdges(G, n, "POSTED") =
               {[from |-> BrandId(u), to |-> n, relation |-> "POSTED"]}
        /\ G.node[BrandId(u)].node_type = "brand"

\* C1: after build_graph rebuilds from a collection of unique post_ids, every post
\* of the collection has exactly one post node, exactly one outgoing BELONGS_TO
\* edge, exactly one outgoing IS_TYPE edge and exactly one incoming POSTED edge,
\* which leaves the brand node.
C1_GraphInvariant ==
    \A u \in Dirs :
        (LastRebuilt(u) /\ posts[u].exists /\ UniqueIds(posts[u].list)) =>
            \A i \in 1..Len(posts[u].list) :
                PostWellFormed(result.value, u, posts[u].list[i])

\* a rebuild over two posts of the same month and of different media types
C1_Witness ==
    /\ LastRebuilt("nike")
    /\ posts["nike"].exists
    /\ IdsOf(posts["nike"].list) = {"p1", "p2"}

\* C2: a forced build_graph right after a rebuild of the same account over the
\* same posts returns the graph the first rebuild returned (same nodes, same
\* attributes, same labelled edges) and leaves the snapshot file as it was.
C2_RebuildIdempotent ==
    [][\A username \in Handles :
          (/\ BuildStep(username, TRUE)
           /\ LastRebuilt(NormUser(username))
           /\ posts[NormUser(username)].exists)
          => /\ result'.kind = "value"
             /\ result'.value = result.value
             /\ snap'[NormUser(username)] = snap[NormUser(username)]]_vars

\* a second rebuild in a row, over two posts
C2_Witness ==
    /\ result.op = "build_graph"
    /\ result.again
    /\ result.arg = <<TRUE>>
    /\ result.kind = "value"
    /\ Len(posts["nike"].list) = 2

\* C3: build_graph without force_rebuild, when the snapshot file holds a graph,
\* returns that graph and changes no file.
C3_CacheServed ==
    [][\A username \in Handles :
          (BuildStep(username, FALSE) /\ snap[NormUser(username)].state = "graph")
          => /\ result'.kind = "value"
             /\ result'.value = snap[NormUser(username)].graph
             /\ snap' = snap /\ posts' = posts /\ emb' = emb]_vars

\* the stored graph served although the posts it was built from are gone or replaced
C3_Witness ==
    /\ result.op = "build_graph"
    /\ result.path = "cache"
    /\ result.kind = "value"
    /\ PostNodes(result.value) # {}
    /\ PostNodes(result.value) # {PostNodeId(pid) : pid \in IdsOf(posts["nike"].list)}

\* C4: build_graph without force_rebuild, when the snapshot file does not load
\* (unreadable, or no directed graph) and the post collection exists, raises
\* nothing: it returns the graph rebuilt from the posts and the snapshot file
\* holds that graph.
C4_CorruptSnapshotRebuilt ==
    [][\A username \in Handles :
          (/\ BuildStep(username, FALSE)
           /\ snap[NormUser(username)].state \in {"garbage", "wrongtype"}
           /\ posts[NormUser(username)].exists)
          => /\ result'.kind = "value"
             /\ \A i \in 1..Len(posts[NormUser(username)].list) :
                   PostWellFormed(result'.value, NormUser(username),
                                  posts[NormUser(username)].list[i])
             /\ PostNodes(result'.value) =
                   {PostNodeId(pid) : pid \in IdsOf(posts[NormUser(username)].list)}
             /\ snap'[NormUser(username)] = SnapFile(result'.value)]_vars

\* a rebuild that followed a discarded snapshot, over at least one post
C4_Witness ==
    /\ result.op = "build_graph"
    /\ result.path = "discard_rebuild"
    /\ result.kind = "value"
    /\ PostNodes(result.value) # {}

\* C5: whenever a build_graph call that rebuilt has returned graph G, the snapshot
\* file holds G, and a build_graph without force_rebuild that follows returns G.
C5_RebuildPersisted ==
    /\ [](\A u \in Dirs : LastRebuilt(u) => snap[u] = SnapFile(result.value))
    /\ [][\A username \in Handles :
             (BuildStep(username, FALSE) /\ LastRebuilt(NormUser(username)))
             => (result'.kind = "value" /\ result'.value = result.value)]_vars

\* a graph served from the file right after a rebuild wrote it
C5_Witness ==
    /\ result.op = "build_graph"
    /\ result.path = "cache"
    /\ result.kind = "value"
    /\ snap["nike"] = SnapFile(result.value)
    /\ PostNodes(result.value) # {}

\* C6: build_graph that has to rebuild while the post collection is absent ends
\* in the missing-data failure: no graph is returned and no snapshot is written
\* (the file is as before, or gone when it did not load).
C6_MissingDataFails ==
    [][\A username \in Handles : \A force_rebuild \in BOOLEAN :
          (/\ BuildStep(username, force_rebuild)
           /\ ~posts[NormUser(username)].exists
           /\ (force_rebuild \/ snap[NormUser(username)].state # "graph"))
          => /\ result'.kind = "raise"
             /\ result'.value.exc = "FileNotFoundError"
             /\ snap'[NormUser(username)] =
                   (IF ~force_rebuild /\ snap[NormUser(username)].state # "absent"
                    THEN NoSnap ELSE snap[NormUser(username)])]_vars

\* a forced rebuild that failed for want of posts and left the stored graph alone
C6_Witness ==
    /\ result.op = "build_graph"
    /\ result.kind = "raise"
    /\ result.arg = <<TRUE>>
    /\ ~posts["nike"].exists
    /\ snap["nike"].state = "graph"

(***************************************************************************)
(* Properties of the read side.                                            *)
(***************************************************************************)
ReadOps ==
    {"get_engagement_summary", "get_hashtag_analysis", "get_monthly_breakdown",
     "find_similar_posts", "extract_subgraph", "extract_comparison_subgraph",
     "get_graph_context"}

Aggregates == {"get_engagement_summary", "get_hashtag_analysis", "get_monthly_breakdown"}

\* the accounts the call recorded in r reads, in the order it reads them
AccountsOf(r) == IF r.op = "extract_comparison_subgraph" THEN r.arg[1] ELSE <<r.username>>

\* the first account of the call recorded in r whose post collection is absent
FirstMissing(r) ==
    LET missing == {k \in 1..Len(AccountsOf(r)) : ~posts[NormUser(AccountsOf(r)[k])].exists}
    IN  IF missing = {} THEN ""
        ELSE AccountsOf(r)[CHOOSE k \in missing : \A j \in missing : k <= j]

\* C7 as stated: a read function called for an account whose post collection is
\* absent returns a structured error value instead of raising.
C7_AbsentReturnsErrorValue ==
    [][(result'.op \in ReadOps /\ FirstMissing(result') # "")
          => result'.kind = "error"]_vars

\* C7: each of the seven read functions, called for an account whose post
\* collection is absent, ends in the missing-data failure FileNotFoundError
\* "No data for @<account>." raised to its caller, and changes no stored file;
\* it returns no value.
C7_AbsentRaisesMissingData ==
    [][(result'.op \in ReadOps /\ FirstMissing(result') # "")
          => /\ result'.kind = "raise"
             /\ result'.value = [exc |-> "FileNotFoundError",
                                 msg |-> <<"No data for @", FirstMissing(result'), ".">>]
             /\ UNCHANGED <<posts, snap, emb>>]_vars

\* a comparison that read the first account and failed on the second, never ingested
C7_Witness ==
    /\ result.op = "extract_comparison_subgraph"
    /\ result.arg[1] = <<"nike", "adidas">>
    /\ posts["nike"].exists /\ ~posts["adidas"].exists
    /\ result.kind = "raise"
    /\ result.value.msg = <<"No data for @", "adidas", ".">>

\* C8 as stated: over a post collection that exists and is empty, each of the three
\* aggregate functions returns an explicit no-data result: neither a raise nor an
\* ordinary aggregate.
C8_EmptyYieldsNoData ==
    [][(/\ result'.op \in Aggregates
        /\ posts[NormUser(result'.username)].exists
        /\ posts[NormUser(result'.username)].list = <<>>)
          => result'.kind = "error"]_vars

\* find_similar_posts taking the step, with the call's arguments
SimilarStep(username, post_id, top_k) ==
    /\ result'.op = "find_similar_posts"
    /\ result'.username = username
    /\ result'.arg = <<post_id, top_k>>
    /\ find_similar_posts(username, post_id, top_k)

\* C9: find_similar_posts for a post_id that the account's post collection does not
\* hold returns the not-found error value (no ranking, no raise) and leaves the
\* embeddings file, like every other file, as it was.
C9_UnknownPostNotFound ==
    [][\A username \in Handles : \A post_id \in PostIds \cup {UnknownId} : \A top_k \in 0..MaxK :
          (/\ SimilarStep(username, post_id, top_k)
           /\ posts[NormUser(username)].exists
           /\ post_id \notin IdsOf(posts[NormUser(username)].list))
          => /\ result'.kind = "error"
             /\ result'.value =
                   [error |-> <<"post_id ", <<"'", post_id, "'">>, " not found in @", username, ".">>]
             /\ UNCHANGED <<posts, snap, emb>>]_vars

\* an unknown post asked of a non-empty collection whose embeddings are stale,
\* with the backend up: a rebuild was possible and was not made
C9_Witness ==
    /\ result.op = "find_similar_posts"
    /\ result.path = "not_found"
    /\ result.kind = "error"
    /\ backend
    /\ posts["nike"].exists /\ posts["nike"].list # <<>>
    /\ ~IsFresh(emb["nike"], posts["nike"].list)

\* the ranking lists no entry for post_id and has min(top_k, n - 1) entries
ExcludesAndBounds(ranking, n, post_id, top_k) ==
    /\ \A j \in 1..Len(ranking) : ranking[j].post_id # post_id
    /\ Len(ranking) = (IF top_k < n - 1 THEN top_k ELSE n - 1)

\* C10: for a post_id of the collection and top_k >= 0, the ranking that
\* find_similar_posts returns never lists post_id and has exactly
\* min(top_k, n - 1) entries, n the number of posts; the same holds of the
\* hashtag-overlap ranking over every stored collection.
C10_SelfExclusionAndBound ==
    /\ [][\A username \in Handles : \A post_id \in PostIds : \A top_k \in 0..MaxK :
             (SimilarStep(username, post_id, top_k) /\ result'.kind = "value")
             => ExcludesAndBounds(result'.value.similar_posts,
                                  Len(posts[NormUser(username)].list), post_id, top_k)]_vars
    /\ [](\A u \in Active : \A post_id \in PostIds : \A top_k \in 0..MaxK :
             (posts[u].exists /\ post_id \in IdsOf(posts[u].list))
             => ExcludesAndBounds(JaccardRanking(posts[u].list, post_id, top_k),
                                  Len(posts[u].list), post_id, top_k))

\* three posts, one asked for: the cut to top_k = 1 leaves one of the two others
C10_Witness ==
    /\ result.op = "find_similar_posts"
    /\ result.path = "bge_cosine"
    /\ result.arg[2] = 1
    /\ posts["nike"].exists /\ Len(posts["nike"].list) = 3
    /\ Len(result.value.similar_posts) = 1
    /\ result.value.similar_posts[1].post_id # result.arg[1]

(***************************************************************************)
(* Properties of the embedding record and of the rankings.                 *)
(***************************************************************************)
\* the post ids of ps in the order of ps
IdList(ps) == [i \in 1..Len(ps) |-> ps[i].post_id]

\* a record exists, carries the configured model, and lists exactly the ids of ps
FreshBySets(E, ps) ==
    /\ E.state = "ok"
    /\ E.model = EMBEDDING_MODEL
    /\ \A pid \in PostIds \cup {UnknownId, "p4"} :
          (\E i \in 1..Len(E.ids) : E.ids[i] = pid) <=> (\E j \in 1..Len(ps) : ps[j].post_id = pid)

\* C11: a loadable embedding record is judged fresh exactly when it exists, names
\* the configured model and lists, in any order, exactly the ids of the current
\* posts; find_similar_posts for a post of the collection reuses a record so
\* judged and never ranks with one that is not.
C11_FreshIffModelAndIdSet ==
    /\ [](\A u \in Active :
             (posts[u].exists /\ emb[u].state # "garbage")
             => (IsFresh(emb[u], posts[u].list) <=> FreshBySets(emb[u], posts[u].list)))
    /\ [][\A username \in ActiveHandles : \A post_id \in PostIds : \A top_k \in 0..MaxK :
             LET u == NormUser(username)
             IN  (/\ SimilarStep(username, post_id, top_k)
                  /\ posts[u].exists /\ post_id \in IdsOf(posts[u].list)
                  /\ emb[u].state # "garbage")
                 => IF FreshBySets(emb[u], posts[u].list)
                    THEN emb' = emb /\ result'.path = "bge_cosine"
                    ELSE emb'[u] # emb[u] \/ result'.kind = "raise"]_vars

\* a record whose ids are those of the posts in another order, reused by a ranking
C11_Witness ==
    /\ result.op = "find_similar_posts"
    /\ result.path = "bge_cosine"
    /\ posts["nike"].exists
    /\ emb["nike"].state = "ok"
    /\ Range(emb["nike"].ids) = IdsOf(posts["nike"].list)
    /\ emb["nike"].ids # IdList(posts["nike"].list)

\* C12: find_similar_posts for a post of the collection, over a missing or stale
\* record and with the backend answering, writes the record of the current posts
\* (their ids in input order, the configured model) and ranks with that record;
\* over a fresh record it ranks with the stored record and writes nothing.
C12_StaleRebuiltFreshReused ==
    [][\A username \in ActiveHandles : \A post_id \in PostIds : \A top_k \in 0..MaxK :
          LET u == NormUser(username)
              ps == posts[u].list
          IN  (/\ SimilarStep(username, post_id, top_k)
               /\ posts[u].exists /\ post_id \in IdsOf(ps)
               /\ emb[u].state # "garbage")
              => IF FreshBySets(emb[u], ps)
                 THEN /\ emb' = emb
                      /\ result'.kind = "value"
                      /\ result'.value.similar_posts = CosineRanking(emb[u], ps, post_id, top_k)
                 ELSE backend
                      => /\ result'.kind = "value"
                         /\ result'.value.method = "bge_cosine"
                         /\ emb'[u].state = "ok"
                         /\ emb'[u].ids = IdList(ps)
                         /\ emb'[u].model = EMBEDDING_MODEL
                         /\ result'.value.similar_posts =
                               CosineRanking(emb'[u], ps, post_id, top_k)]_vars

\* a ranking made right after the rebuild of a record
C12_Witness ==
    /\ result.op = "find_similar_posts"
    /\ result.path = "bge_cosine"
    /\ result.again
    /\ Len(result.value.similar_posts) = 2
    /\ emb["nike"].ids = IdList(posts["nike"].list)

\* C13 as stated: with the backend not answering, find_similar_posts for a post of
\* the collection does not fail; where no fresh record is at hand it returns the
\* hashtag ranking labelled as the fallback, and it takes the fallback only then.
C13_BackendDownFallsBack ==
    [][\A username \in ActiveHandles : \A post_id \in PostIds : \A top_k \in 0..MaxK :
          LET u == NormUser(username)
              ps == posts[u].list
          IN  (/\ SimilarStep(username, post_id, top_k)
               /\ posts[u].exists /\ post_id \in IdsOf(ps)
               /\ emb[u].state # "garbage"
               /\ ~backend)
              => /\ result'.kind = "value"
                 /\ (result'.value.method = "hashtag_jaccard_fallback")
                       <=> ~FreshBySets(emb[u], ps)
                 /\ result'.value.method = "hashtag_jaccard_fallback"
                       => /\ "warning" \in DOMAIN result'.value
                          /\ result'.value.similar_posts = JaccardRanking(ps, post_id, top_k)]_vars

\* C14 as stated: over an embeddings file that does not load, find_similar_posts
\* for a post of the collection returns a ranking (from a rebuilt record, or the
\* fallback) and the load failure does not reach the caller.
C14_UnreadableRecordRecovered ==
    [][\A username \in ActiveHandles : \A post_id \in PostIds : \A top_k \in 0..MaxK :
          LET u == NormUser(username)
          IN  (/\ SimilarStep(username, post_id, top_k)
               /\ posts[u].exists /\ post_id \in IdsOf(posts[u].list)
               /\ emb[u].state = "garbage")
              => /\ result'.kind = "value"
                 /\ \/ emb'[u] = EmbeddingsOf(posts[u].list)
                    \/ result'.value.method = "hashtag_jaccard_fallback"]_vars

\* the place of pid in the list of ids order
PosIn(order, pid) == CHOOSE i \in 1..Len(order) : order[i] = pid

\* the score of post pid against post_id in the record E, 25 times the cosine
ScoreIn(E, pid, post_id) ==
    Dot(E.vectors[PosIn(E.ids, pid)], E.vectors[PosIn(E.ids, post_id)])

\* ranking lists the min(top_k, n - 1) best of the posts of E other than post_id,
\* best first, posts of equal score in the order of the list order
WellRanked(ranking, E, order, post_id, top_k) ==
    LET others == Range(E.ids) \ {post_id}
        listed == {ranking[j].post_id : j \in 1..Len(ranking)}
        Before(a, b) ==
            \/ ScoreIn(E, a, post_id) > ScoreIn(E, b, post_id)
            \/ /\ ScoreIn(E, a, post_id) = ScoreIn(E, b, post_id)
               /\ PosIn(order, a) < PosIn(order, b)
    IN  /\ listed \subseteq others
        /\ Len(ranking) = (IF top_k < Cardinality(others) THEN top_k ELSE Cardinality(others))
        /\ \A i, j \in 1..Len(ranking) :
              i < j => Before(ranking[i].post_id, ranking[j].post_id)
        /\ \A a \in listed : \A b \in others \ listed : Before(a, b)
        /\ \A j \in 1..Len(ranking) :
              ranking[j].similarity * 25 = SimilarityScale * ScoreIn(E, ranking[j].post_id, post_id)

\* C15 as stated: on the embedding path the ranking is the other posts by score,
\* best first, cut to top_k, posts of equal score in the order of the post collection.
C15_TiesInCollectionOrder ==
    [][\A username \in ActiveHandles : \A post_id \in PostIds : \A top_k \in 0..MaxK :
          (SimilarStep(username, post_id, top_k) /\ result'.path = "bge_cosine")
          => WellRanked(result'.value.similar_posts, emb'[NormUser(username)],
                        IdList(posts[NormUser(username)].list), post_id, top_k)]_vars

\* What the code does in place of the tie rule of C15: the ranking is the other
\* posts by score, best first, cut to top_k, posts of equal score in the order of
\* the embedding record's id list, which is the
\* order of the current collection whenever this call built the record.
C15_TiesInRecordOrder ==
    [][\A username \in ActiveHandles : \A post_id \in PostIds : \A top_k \in 0..MaxK :
          LET u == NormUser(username)
          IN  (SimilarStep(username, post_id, top_k) /\ result'.path = "bge_cosine")
              => /\ WellRanked(result'.value.similar_posts, emb'[u], emb'[u].ids,
                               post_id, top_k)
                 /\ result'.again => emb'[u].ids = IdList(posts[u].list)]_vars

\* two posts of equal score, listed in the order of a record that the collection
\* no longer follows
C15_Witness ==
    /\ result.op = "find_similar_posts"
    /\ result.path = "bge_cosine"
    /\ Len(result.value.similar_posts) = 2
    /\ result.value.similar_posts[1].similarity = result.value.similar_posts[2].similarity
    /\ posts["nike"].exists
    /\ emb["nike"].ids # IdList(posts["nike"].list)
    /\ PosIn(emb["nike"].ids, result.value.similar_posts[1].post_id)
          < PosIn(emb["nike"].ids, result.value.similar_posts[2].post_id)

\* the hashtags that the post of ps with the id pid carries
TagsOf(ps, pid) ==
    {h \in UNION {Range(ps[i].hashtags) : i \in 1..Len(ps)} :
        \E i \in 1..Len(ps) : ps[i].post_id = pid /\ \E k \in 1..Len(ps[i].hashtags) : ps[i].hashtags[k] = h}

\* entry e of a ranking for the post a states the overlap of the hashtags of a
\* and of e's post: their intersection, and |intersection| / |union| to the
\* nearest 1/SimilarityScale, 0 for an empty union, between 0 and 1
StatesOverlap(e, ps, a) ==
    LET inter == TagsOf(ps, a) \cap TagsOf(ps, e.post_id)
        union == TagsOf(ps, a) \cup TagsOf(ps, e.post_id)
        off == e.similarity * Cardinality(union) - SimilarityScale * Cardinality(inter)
    IN  /\ e.shared_hashtags = inter
        /\ union = {} => e.similarity = 0
        /\ union # {} => 2 * off <= Cardinality(union) /\ 2 * off >= - Cardinality(union)
        /\ e.similarity >= 0 /\ e.similarity <= SimilarityScale

\* C16: in the hashtag-overlap ranking of every stored collection, for every
\* queried post a and every top_k, each entry for a post b carries
\* |hashtags(a) \cap hashtags(b)| / |hashtags(a) \cup hashtags(b)| rounded to four
\* places, exactly 0 when the union is empty, within [0, 1], and as shared_hashtags
\* exactly the intersection.
C16_JaccardOverlap ==
    \A u \in Active : \A top_k \in 0..(MaxItems + 1) :
       posts[u].exists =>
          \A a \in IdsOf(posts[u].list) :
             LET ranking == JaccardRanking(posts[u].list, a, top_k)
             IN  \A j \in 1..Len(ranking) : StatesOverlap(ranking[j], posts[u].list, a)

\* a stored collection whose overlap rankings have an entry strictly between 0
\* and 1 with a shared hashtag, and an entry for two posts without hashtags
C16_Witness ==
    /\ posts["nike"].exists
    /\ \E a \in IdsOf(posts["nike"].list) :
          LET ranking == JaccardRanking(posts["nike"].list, a, MaxK)
          IN  \E j \in 1..Len(ranking) :
                 /\ ranking[j].similarity > 0 /\ ranking[j].similarity < SimilarityScale
                 /\ ranking[j].shared_hashtags # {}
    /\ \E a \in IdsOf(posts["nike"].list) :
          LET ranking == JaccardRanking(posts["nike"].list, a, MaxItems)
          IN  \E j \in 1..Len(ranking) :
                 /\ TagsOf(posts["nike"].list, a) = {}
                 /\ TagsOf(posts["nike"].list, ranking[j].post_id) = {}
                 /\ ranking[j].similarity = 0

(***************************************************************************)
(* Properties of the aggregates.                                           *)
(***************************************************************************)
\* a summary was returned by the last call of get_engagement_summary
SummaryReturned == result.op = "get_engagement_summary" /\ result.kind = "value"

\* the collection the last call read
PostsRead == posts[NormUser(result.username)].list

RECURSIVE LikesOfFirst(_, _)
\* the likes of the first n posts of ps together
LikesOfFirst(ps, n) == IF n = 0 THEN 0 ELSE LikesOfFirst(ps, n - 1) + ps[n].like_count

RECURSIVE CommentsOfFirst(_, _)
\* the comments of the first n posts of ps together
CommentsOfFirst(ps, n) == IF n = 0 THEN 0 ELSE CommentsOfFirst(ps, n - 1) + ps[n].comment_count

\* C17: for a non-empty collection of n posts, get_engagement_summary reports
\* total_posts = n, total_likes and total_comments the sums of like_count and
\* comment_count, and averages with avg * n <= total < (avg + 1) * n.
C17_TotalsAndFloorAverages ==
    SummaryReturned =>
        LET v == result.value
            n == Len(PostsRead)
        IN  /\ n > 0
            /\ v.total_posts = n
            /\ v.total_likes = LikesOfFirst(PostsRead, n)
            /\ v.total_comments = CommentsOfFirst(PostsRead, n)
            /\ v.avg_likes * n <= v.total_likes /\ v.total_likes < (v.avg_likes + 1) * n
            /\ v.avg_comments * n <= v.total_comments
            /\ v.total_comments < (v.avg_comments + 1) * n

\* a summary of three posts whose likes do not divide evenly
C17_Witness ==
    /\ SummaryReturned
    /\ result.value.total_posts = 3
    /\ result.value.total_comments > 0
    /\ result.value.avg_likes * 3 < result.value.total_likes

\* the k-th smallest like_count of ps: fewer than k posts have less, at least k
\* have no more
KthLikes(ps, k) ==
    CHOOSE x \in {ps[i].like_count : i \in 1..Len(ps)} :
        /\ Cardinality({i \in 1..Len(ps) : ps[i].like_count < x}) < k
        /\ Cardinality({i \in 1..Len(ps) : ps[i].like_count <= x}) >= k

\* C18: median_likes is the middle one of the like counts in ascending order
\* when their number is odd, and the floor of the average of the two middle ones
\* when it is even.
C18_MedianLikes ==
    SummaryReturned =>
        LET n == Len(PostsRead)
            h == n \div 2
        IN  /\ n % 2 = 1 => result.value.median_likes = KthLikes(PostsRead, h + 1)
            /\ n % 2 = 0 =>
                  /\ 2 * result.value.median_likes
                        <= KthLikes(PostsRead, h) + KthLikes(PostsRead, h + 1)
                  /\ 2 * result.value.median_likes + 2
                        > KthLikes(PostsRead, h) + KthLikes(PostsRead, h + 1)

\* two posts whose like counts have no whole average: the median is rounded down
C18_Witness ==
    /\ SummaryReturned
    /\ Len(PostsRead) = 2
    /\ (PostsRead[1].like_count + PostsRead[2].like_count) % 2 = 1
    /\ PostsRead[1].like_count > PostsRead[2].like_count
    /\ 2 * result.value.median_likes + 1 = PostsRead[1].like_count + PostsRead[2].like_count

\* C19: best_post is a post of the largest like_count of the collection, and of
\* several such posts the first in the order of the collection.
C19_BestPostFirstMaximum ==
    SummaryReturned =>
        \E i \in 1..Len(PostsRead) :
            /\ result.value.best_post.post_id = PostsRead[i].post_id
            /\ result.value.best_post.like_count = PostsRead[i].like_count
            /\ \A j \in 1..Len(PostsRead) : PostsRead[j].like_count <= PostsRead[i].like_count
            /\ \A j \in 1..(i - 1) : PostsRead[j].like_count # PostsRead[i].like_count

\* two posts share the largest like_count and the first of them is reported
C19_Witness ==
    /\ SummaryReturned
    /\ \E i, j \in 1..Len(PostsRead) :
          /\ i < j
          /\ PostsRead[i].like_count = PostsRead[j].like_count
          /\ \A k \in 1..Len(PostsRead) : PostsRead[k].like_count <= PostsRead[i].like_count
          /\ result.value.best_post.post_id = PostsRead[i].post_id

\* a table was returned by the last call of get_hashtag_analysis
TableReturned == result.op = "get_hashtag_analysis" /\ result.kind = "value"

RECURSIVE FrequencyOfFirst(_, _)
\* the frequencies of the first n rows together
FrequencyOfFirst(rows, n) ==
    IF n = 0 THEN 0 ELSE FrequencyOfFirst(rows, n - 1) + rows[n].frequency

RECURSIVE HashtagsOfFirst(_, _)
\* the number of hashtags the first n posts of ps carry together
HashtagsOfFirst(ps, n) ==
    IF n = 0 THEN 0 ELSE HashtagsOfFirst(ps, n - 1) + Len(ps[n].hashtags)

\* the places at which the posts of ps carry the hashtag tag
Carried(ps, tag) ==
    UNION {{<<i, k>> : k \in {k \in 1..Len(ps[i].hashtags) : ps[i].hashtags[k] = tag}} :
              i \in 1..Len(ps)}

\* C20 as stated: the frequencies of the returned table sum to the number of
\* hashtags the posts carry together, for every collection, those of more than
\* 25 distinct hashtags among them.
C20_ReturnedFrequenciesSumToAll ==
    TableReturned =>
        FrequencyOfFirst(result.value.top_by_frequency, Len(result.value.top_by_frequency))
            = HashtagsOfFirst(PostsRead, Len(PostsRead))

\* C20: the returned table has a row for each distinct hashtag up to
\* TopByFrequency rows, each with the number of times the posts carry that
\* hashtag; its frequencies sum to the number of hashtags the posts carry
\* together when there are at most TopByFrequency distinct hashtags, and fall
\* short of it by at least one for each hashtag left out when there are more.
C20_FrequenciesSumUpToCut ==
    TableReturned =>
        LET rows == result.value.top_by_frequency
            unique == result.value.total_unique_hashtags
            all == HashtagsOfFirst(PostsRead, Len(PostsRead))
        IN  /\ Len(rows) = (IF unique < TopByFrequency THEN unique ELSE TopByFrequency)
            /\ \A i \in 1..Len(rows) :
                  /\ rows[i].frequency = Cardinality(Carried(PostsRead, rows[i].hashtag[2]))
                  /\ \A j \in 1..Len(rows) : rows[i].hashtag = rows[j].hashtag => i = j
            /\ unique <= TopByFrequency => FrequencyOfFirst(rows, Len(rows)) = all
            /\ unique > TopByFrequency
                  => FrequencyOfFirst(rows, Len(rows)) + (unique - TopByFrequency) <= all

\* a table over two posts that share a hashtag and carry more than
\* TopByFrequency distinct hashtags: the rows returned sum to less than all
C20_Witness ==
    /\ TableReturned
    /\ Len(PostsRead) = 2
    /\ result.value.total_unique_hashtags > TopByFrequency
    /\ Len(result.value.top_by_frequency) = TopByFrequency
    /\ result.value.top_by_frequency[1].frequency = 2
    /\ FrequencyOfFirst(result.value.top_by_frequency, TopByFrequency)
          < HashtagsOfFirst(PostsRead, 2)

\* the hashtags the posts of ps carry
AllTags(ps) == UNION {Range(ps[i].hashtags) : i \in 1..Len(ps)}

\* the hashtag a is met before the hashtag b when the posts of ps are read in
\* order, each post's hashtags in order
SeenBefore(ps, a, b) ==
    \E x \in Carried(ps, a) : \A y \in Carried(ps, b) :
        x[1] < y[1] \/ (x[1] = y[1] /\ x[2] < y[2])

\* the likes of the posts of ps that carry the hashtag tag, together
LikesCarrying(ps, tag) ==
    LikesOfFirst(SelectSeq(ps, LAMBDA p : tag \in Range(p.hashtags)),
                 Len(SelectSeq(ps, LAMBDA p : tag \in Range(p.hashtags))))

\* C21: top_by_frequency has at most 25 rows of hashtags the posts carry, in
\* non-increasing frequency, hashtags of equal frequency in the order they are
\* first met, and no hashtag left out is more frequent than one listed;
\* top_by_avg_likes has at most 10 rows in non-increasing avg_likes, avg_likes
\* the floor average of the likes of the posts that carry the hashtag.
C21_TopTables ==
    TableReturned =>
        LET byFreq == result.value.top_by_frequency
            byLikes == result.value.top_by_avg_likes
            listed == {byFreq[i].hashtag[2] : i \in 1..Len(byFreq)}
            Freq(tag) == Cardinality(Carried(PostsRead, tag))
        IN  /\ Len(byFreq) <= TopByFrequency
            /\ listed \subseteq AllTags(PostsRead)
            /\ \A i \in 1..Len(byFreq) : byFreq[i].frequency = Freq(byFreq[i].hashtag[2])
            /\ \A i, j \in 1..Len(byFreq) :
                  i < j => \/ byFreq[i].frequency > byFreq[j].frequency
                           \/ /\ byFreq[i].frequency = byFreq[j].frequency
                              /\ SeenBefore(PostsRead, byFreq[i].hashtag[2], byFreq[j].hashtag[2])
            /\ \A tag \in AllTags(PostsRead) \ listed :
                  /\ Len(byFreq) = TopByFrequency
                  /\ \A i \in 1..Len(byFreq) : Freq(tag) <= byFreq[i].frequency
            /\ Len(byLikes) <= TopByAvgLikes
            /\ \A i, j \in 1..Len(byLikes) : i < j => byLikes[i].avg_likes >= byLikes[j].avg_likes
            /\ \A i \in 1..Len(byLikes) :
                  LET tag == byLikes[i].hashtag[2]
                  IN  /\ tag \in AllTags(PostsRead)
                      /\ byLikes[i].avg_likes * Freq(tag) <= LikesCarrying(PostsRead, tag)
                      /\ LikesCarrying(PostsRead, tag) < (byLikes[i].avg_likes + 1) * Freq(tag)

\* a table over more than 25 hashtags: a hashtag of frequency 2 that was met
\* after others leads, hashtags of equal frequency follow, some are left out, and
\* top_by_avg_likes is cut to 10 rows that are not all alike
C21_Witness ==
    /\ TableReturned
    /\ result.value.total_unique_hashtags > TopByFrequency
    /\ Len(result.value.top_by_frequency) = TopByFrequency
    /\ result.value.top_by_frequency[1].frequency = 2
    /\ result.value.top_by_frequency[2].frequency = 1
    /\ SeenBefore(PostsRead, result.value.top_by_frequency[2].hashtag[2],
                  result.value.top_by_frequency[1].hashtag[2])
    /\ Len(result.value.top_by_avg_likes) = TopByAvgLikes
    /\ result.value.top_by_avg_likes[1].avg_likes > result.value.top_by_avg_likes[2].avg_likes

\* the posts of ps of the month m
InMonth(ps, m) == SelectSeq(ps, LAMBDA p : p.month = m)

RECURSIVE CountsOfFirst(_, _)
\* the counts of the first n entries of a media mix together
CountsOfFirst(mix, n) == IF n = 0 THEN 0 ELSE CountsOfFirst(mix, n - 1) + mix[n].count

RECURSIVE MonthPostsOfFirst(_, _, _)
\* the post counts of the first n month entries together
MonthPostsOfFirst(entries, n, trend) ==
    IF n = 0 THEN 0
    ELSE MonthPostsOfFirst(entries, n - 1, trend)
            + (IF trend THEN entries[n].post_count ELSE entries[n].posts)

\* the entries name each month of ps once, in ascending order of the month key
MonthsAscending(entries, ps) ==
    /\ {entries[i].key : i \in 1..Len(entries)} = {ps[j].month : j \in 1..Len(ps)}
    /\ \A i, j \in 1..Len(entries) : i < j => MonthOrd(entries[i].key) < MonthOrd(entries[j].key)

\* avg is the floor of total / n
FloorAverage(avg, total, n) == avg * n <= total /\ total < (avg + 1) * n

\* C22: get_monthly_breakdown, and monthly_trend of get_engagement_summary, have
\* one entry for each month of the collection in ascending order of the month
\* key; an entry's post count and total_likes are the number and the likes of
\* the posts of that month, avg_likes and avg_comments the floor averages, the
\* media_mix counts the posts of the month by media type and sums to the post
\* count, and the post counts of all months sum to the size of the collection.
C22_MonthlyEntries ==
    /\ (result.op = "get_monthly_breakdown" /\ result.kind = "value") =>
          LET v == result.value
          IN  /\ MonthsAscending(v, PostsRead)
              /\ MonthPostsOfFirst(v, Len(v), FALSE) = Len(PostsRead)
              /\ \A i \in 1..Len(v) :
                    LET of == InMonth(PostsRead, v[i].key)
                    IN  /\ v[i].posts = Len(of)
                        /\ v[i].total_likes = LikesOfFirst(of, Len(of))
                        /\ FloorAverage(v[i].avg_likes, LikesOfFirst(of, Len(of)), Len(of))
                        /\ FloorAverage(v[i].avg_comments, CommentsOfFirst(of, Len(of)), Len(of))
                        /\ CountsOfFirst(v[i].media_mix, Len(v[i].media_mix)) = Len(of)
                        /\ \A k \in 1..Len(v[i].media_mix) :
                              v[i].media_mix[k].count =
                                 Cardinality({j \in 1..Len(of) :
                                                 of[j].media_type = v[i].media_mix[k].key})
    /\ SummaryReturned =>
          LET t == result.value.monthly_trend
          IN  /\ MonthsAscending(t, PostsRead)
              /\ MonthPostsOfFirst(t, Len(t), TRUE) = Len(PostsRead)
              /\ \A i \in 1..Len(t) :
                    LET of == InMonth(PostsRead, t[i].key)
                    IN  /\ t[i].post_count = Len(of)
                        /\ FloorAverage(t[i].avg_likes, LikesOfFirst(of, Len(of)), Len(of))
                        /\ FloorAverage(t[i].avg_comments, CommentsOfFirst(of, Len(of)), Len(of))

\* a breakdown of three posts: the later month was met first, it has two posts of
\* two media types, and its likes do not divide evenly
C22_Witness ==
    /\ result.op = "get_monthly_breakdown" /\ result.kind = "value"
    /\ Len(PostsRead) = 3
    /\ Len(result.value) = 2
    /\ PostsRead[1].month = result.value[2].key
    /\ result.value[2].posts = 2
    /\ Len(result.value[2].media_mix) = 2
    /\ result.value[2].avg_likes * 2 < result.value[2].total_likes

(***************************************************************************)
(* Properties of the subgraphs.                                            *)
(***************************************************************************)
\* a subgraph was returned by the last call of extract_subgraph
SubgraphReturned == result.op = "extract_subgraph" /\ result.kind = "value"

\* a subgraph was returned by the last call of extract_comparison_subgraph
ComparisonReturned == result.op = "extract_comparison_subgraph" /\ result.kind = "value"

\* the post p satisfies every key that filters holds
Passes(p, filters) ==
    /\ "month" \in DOMAIN filters => p.month = filters["month"]
    /\ "media_type" \in DOMAIN filters => p.media_type = filters["media_type"]
    /\ "min_likes" \in DOMAIN filters => p.like_count >= filters["min_likes"]

\* the ids of the nodes of the groups in groups, in the order of nodes
IdsInGroups(nodes, groups) ==
    LET sel == SelectSeq(nodes, LAMBDA n : n.group \in groups)
    IN  [i \in 1..Len(sel) |-> sel[i].id]

\* C23: a post of the collection has a post node in the output of
\* extract_subgraph, and of extract_comparison_subgraph for its account, exactly
\* when it satisfies every filter key present: month equal, media_type equal,
\* like_count >= min_likes; an absent key excludes nothing and without filters
\* every post has its node.
C23_FiltersConjunctive ==
    /\ SubgraphReturned =>
          LET pass == SelectSeq(PostsRead, LAMBDA p : Passes(p, result.arg[1]))
          IN  IdsInGroups(result.value.nodes, {"post"})
                 = [i \in 1..Len(pass) |-> <<pass[i].post_id>>]
    /\ ComparisonReturned =>
          \A k \in 1..Len(result.arg[1]) :
             LET username == result.arg[1][k]
                 pass == SelectSeq(posts[NormUser(username)].list,
                                   LAMBDA p : Passes(p, result.arg[2]))
             IN  IdsInGroups(result.value.nodes, {<<"post_", Letter(k)>>})
                    = [i \in 1..Len(pass) |-> <<username, ":", pass[i].post_id>>]

\* three posts under a month, a media type and a threshold that one post meets
\* exactly: that post alone has a node, though each other post meets some key
C23_Witness ==
    /\ SubgraphReturned
    /\ DOMAIN result.arg[1] = {"month", "media_type", "min_likes"}
    /\ Len(PostsRead) = 3
    /\ Len(IdsInGroups(result.value.nodes, {"post"})) = 1
    /\ \E i \in 1..3 :
          /\ PostsRead[i].like_count = result.arg[1]["min_likes"]
          /\ IdsInGroups(result.value.nodes, {"post"})[1] = <<PostsRead[i].post_id>>
    /\ \E i \in 1..3 :
          /\ PostsRead[i].month = result.arg[1]["month"]
          /\ ~Passes(PostsRead[i], result.arg[1])

\* the nodes of the groups in groups, in the order of nodes
NodesInGroups(nodes, groups) == SelectSeq(nodes, LAMBDA n : n.group \in groups)

\* C24: in the output of extract_subgraph the size of a post node is
\* 12 + floor(30 * like_count / max(M, 1)), M the largest like_count of the posts
\* that passed the filters; so it lies in 12..42, it is 42 for a post of M likes
\* when M >= 1, and every size is 12 when no post that passed has a like.
C24_PostNodeSize ==
    SubgraphReturned =>
        LET pass == SelectSeq(PostsRead, LAMBDA p : Passes(p, result.arg[1]))
            sized == NodesInGroups(result.value.nodes, {"post"})
            likes == {pass[i].like_count : i \in 1..Len(pass)}
        IN  \A i \in 1..Len(sized) :
               \E M \in likes :
                  LET D == IF M > 1 THEN M ELSE 1
                      s == sized[i].size
                  IN  /\ \A x \in likes : x <= M
                      /\ sized[i].like_count = pass[i].like_count
                      /\ (s - 12) * D <= 30 * sized[i].like_count
                      /\ 30 * sized[i].like_count < (s - 12 + 1) * D
                      /\ s >= 12 /\ s <= 42
                      /\ (M >= 1 /\ sized[i].like_count = M) => s = 42
                      /\ M = 0 => s = 12

\* a collection whose most liked post fails the filter: the most liked of the
\* posts that pass has size 42
C24_Witness ==
    /\ SubgraphReturned
    /\ Len(PostsRead) >= 2
    /\ \E i \in 1..Len(PostsRead) :
          /\ ~Passes(PostsRead[i], result.arg[1])
          /\ \A j \in 1..Len(PostsRead) :
                Passes(PostsRead[j], result.arg[1])
                   => PostsRead[j].like_count < PostsRead[i].like_count
    /\ Len(NodesInGroups(result.value.nodes, {"post"})) = 1
    /\ NodesInGroups(result.value.nodes, {"post"})[1].like_count > 0
    /\ NodesInGroups(result.value.nodes, {"post"})[1].size = 42

SharedGroups == {"hashtag", "mention", "theme", "month", "media_type"}

\* the ids of the shared nodes that the post p refers to
Refs(p) ==
    {HashtagId(p.hashtags[k]) : k \in 1..Len(p.hashtags)}
       \cup {MentionId(p.mentions[k]) : k \in 1..Len(p.mentions)}
       \cup {ThemeId(p.themes[k]) : k \in 1..Len(p.themes)}
       \cup {MonthId(p.month), MediaId(p.media_type)}

\* the number of elements of the sequence xs that satisfy Test
CountOf(xs, Test(_)) == Cardinality({k \in 1..Len(xs) : Test(xs[k])})

\* C25: in the output of extract_subgraph every shared node (hashtag, mention,
\* theme, month, media type) that a post passing the filters refers to is one
\* node, no other shared node appears, and each reference is one edge from its
\* post, so a shared node has as many edges into it as posts refer to it.
C25_SharedNodesOnce ==
    SubgraphReturned =>
        LET pass == SelectSeq(PostsRead, LAMBDA p : Passes(p, result.arg[1]))
            nodes == result.value.nodes
            edges == result.value.edges
            refs == UNION {Refs(pass[i]) : i \in 1..Len(pass)}
        IN  /\ {nodes[k].id : k \in {k \in 1..Len(nodes) : nodes[k].group \in SharedGroups}} = refs
            /\ \A x \in refs :
                  /\ CountOf(nodes, LAMBDA n : n.id = x) = 1
                  /\ CountOf(edges, LAMBDA e : e.to = x)
                        = CountOf(pass, LAMBDA q : x \in Refs(q))
                  /\ \A i \in 1..Len(pass) :
                        CountOf(edges, LAMBDA e : e.to = x /\ e.from = <<pass[i].post_id>>)
                           = (IF x \in Refs(pass[i]) THEN 1 ELSE 0)

\* two posts that pass refer to one hashtag node, which has two edges, and the
\* month of a post that does not pass has no node
C25_Witness ==
    /\ SubgraphReturned
    /\ \E k \in 1..Len(result.value.nodes) :
          /\ result.value.nodes[k].group = "hashtag"
          /\ CountOf(result.value.edges, LAMBDA e : e.to = result.value.nodes[k].id) = 2
    /\ \E i \in 1..Len(PostsRead) :
          /\ ~Passes(PostsRead[i], result.arg[1])
          /\ CountOf(result.value.nodes, LAMBDA n : n.id = MonthId(PostsRead[i].month)) = 0

\* the posts of the account username that pass the filters
PassOf(username, filters) ==
    SelectSeq(posts[NormUser(username)].list, LAMBDA p : Passes(p, filters))

\* the ids of the brand node and the post nodes emitted for the k-th account
OwnIds(nodes, k) ==
    {nodes[i].id : i \in {i \in 1..Len(nodes) :
                            nodes[i].group \in {<<"brand_", Letter(k)>>, <<"post_", Letter(k)>>}}}

RECURSIVE RefsInto(_, _, _, _)
\* the number of passing posts of the first k accounts that refer to the shared node x
RefsInto(usernames, filters, x, k) ==
    IF k = 0 THEN 0
    ELSE RefsInto(usernames, filters, x, k - 1)
            + CountOf(PassOf(usernames[k], filters), LAMBDA q : x \in Refs(q))

\* C26: in the output of extract_comparison_subgraph the brand node and the post
\* nodes of an account carry the account in their ids ("brand:" + account,
\* account + ":" + post_id), so no such id of one account is an id of another
\* account and a post_id that two accounts share gives two nodes; the ids of
\* shared nodes carry no account, so a hashtag, mention, theme, month or media
\* type is one node, with an edge from each post of each account that refers to it.
C26_NamespacedPerAccount ==
    ComparisonReturned =>
        LET usernames == result.arg[1]
            filters == result.arg[2]
            nodes == result.value.nodes
            edges == result.value.edges
            refs == UNION {Refs(PassOf(usernames[k], filters)[i]) :
                              <<k, i>> \in {ki \in (1..Len(usernames)) \X (1..(MaxItems + 1)) :
                                               ki[2] <= Len(PassOf(usernames[ki[1]], filters))}}
        IN  /\ \A k \in 1..Len(usernames) :
                  /\ <<"brand", ":", usernames[k]>> \in {nodes[i].id : i \in 1..Len(nodes)}
                  /\ IdsInGroups(nodes, {<<"post_", Letter(k)>>})
                        = [i \in 1..Len(PassOf(usernames[k], filters)) |->
                              <<usernames[k], ":", PassOf(usernames[k], filters)[i].post_id>>]
            /\ \A k, l \in 1..Len(usernames) :
                  usernames[k] # usernames[l] => OwnIds(nodes, k) \cap OwnIds(nodes, l) = {}
            /\ {nodes[i].id : i \in {i \in 1..Len(nodes) : nodes[i].group \in SharedGroups}} = refs
            /\ \A x \in refs :
                  /\ CountOf(nodes, LAMBDA n : n.id = x) = 1
                  /\ CountOf(edges, LAMBDA e : e.to = x)
                        = RefsInto(usernames, filters, x, Len(usernames))
                  /\ \A k \in 1..Len(usernames) :
                        \A i \in 1..Len(PassOf(usernames[k], filters)) :
                           x \in Refs(PassOf(usernames[k], filters)[i])
                              => \E e \in 1..Len(edges) :
                                    /\ edges[e].to = x
                                    /\ edges[e].from = <<usernames[k], ":",
                                                         PassOf(usernames[k], filters)[i].post_id>>

\* two accounts each with a post of the same post_id and the same hashtag: two
\* post nodes, one hashtag node with an edge from each
C26_Witness ==
    /\ ComparisonReturned
    /\ result.arg[1] = <<"nike", "adidas">>
    /\ \E i, j \in 1..Len(result.value.nodes) :
          LET a == result.value.nodes[i]
              b == result.value.nodes[j]
          IN  /\ a.group \in {<<"post_", "a">>} /\ b.group \in {<<"post_", "b">>}
              /\ a.id[3] = b.id[3]
              /\ a.id # b.id
              /\ \E h \in 1..Len(result.value.nodes) :
                    /\ result.value.nodes[h].group \in SharedGroups
                    /\ result.value.nodes[h].id[1] = "#"
                    /\ CountOf(result.value.nodes,
                               LAMBDA n : n.id = result.value.nodes[h].id) = 1
                    /\ \E e, f \in 1..Len(result.value.edges) :
                          /\ result.value.edges[e].from = a.id
                          /\ result.value.edges[e].to = result.value.nodes[h].id
                          /\ result.value.edges[f].from = b.id
                          /\ result.value.edges[f].to = result.value.nodes[h].id

\* C27: the meta of extract_subgraph agrees with its output: total_posts is the
\* number of post nodes, which is the number of posts that pass the filters,
\* total_hashtags, total_mentions and total_themes are the numbers of hashtag,
\* mention and theme nodes, and filters_applied is the filters passed in, empty
\* when there are none; the meta of extract_comparison_subgraph names the
\* accounts and the filters passed in and counts the nodes and edges.
C27_MetaMatchesOutput ==
    /\ SubgraphReturned =>
          LET nodes == result.value.nodes
              meta == result.value.meta
          IN  /\ meta.total_posts = Len(NodesInGroups(nodes, {"post"}))
              /\ meta.total_posts
                    = Len(SelectSeq(PostsRead, LAMBDA p : Passes(p, result.arg[1])))
              /\ meta.total_hashtags = Len(NodesInGroups(nodes, {"hashtag"}))
              /\ meta.total_mentions = Len(NodesInGroups(nodes, {"mention"}))
              /\ meta.total_themes = Len(NodesInGroups(nodes, {"theme"}))
              /\ meta.filters_applied = result.arg[1]
              /\ meta.username = result.username
    /\ ComparisonReturned =>
          /\ result.value.meta.usernames = result.arg[1]
          /\ result.value.meta.filters_applied = result.arg[2]
          /\ result.value.meta.total_nodes = Len(result.value.nodes)
          /\ result.value.meta.total_edges = Len(result.value.edges)

\* three posts under min_likes: the one post above the threshold is counted,
\* with its two hashtags, its mention and its theme
C27_Witness ==
    /\ SubgraphReturned
    /\ DOMAIN result.arg[1] = {"min_likes"}
    /\ Len(PostsRead) = 3
    /\ result.value.meta.total_posts = 1
    /\ result.value.meta.total_hashtags = 2
    /\ result.value.meta.total_mentions = 1
    /\ result.value.meta.total_themes = 1
    /\ result.value.meta.filters_applied = result.arg[1]

(***************************************************************************)
(* The files a call may write.                                             *)
(***************************************************************************)
PureOps ==
    {"get_engagement_summary", "get_hashtag_analysis", "get_monthly_breakdown",
     "extract_subgraph", "extract_comparison_subgraph", "get_graph_context"}

\* C28: a call of an analytics function, of extract_subgraph, of
\* extract_comparison_subgraph or of get_graph_context leaves every post
\* collection, snapshot and embedding record as it was; find_similar_posts on an
\* account leaves all of them but the embedding record of that account;
\* build_graph on an account leaves all of them but the snapshot of that account.
C28_WritesConfined ==
    [][/\ result'.op \in PureOps => posts' = posts /\ snap' = snap /\ emb' = emb
       /\ result'.op = "find_similar_posts" =>
             /\ posts' = posts /\ snap' = snap
             /\ \A d \in Dirs \ {NormUser(result'.username)} : emb'[d] = emb[d]
       /\ result'.op = "build_graph" =>
             /\ posts' = posts /\ emb' = emb
             /\ \A d \in Dirs \ {NormUser(result'.username)} : snap'[d] = snap[d]]_vars

\* find_similar_posts rebuilt the record of one account while the other account
\* keeps its record of an earlier model and a snapshot that build_graph wrote
C28_Witness ==
    /\ result.op = "find_similar_posts"
    /\ result.username = "nike"
    /\ result.again
    /\ IsFresh(emb["nike"], posts["nike"].list)
    /\ emb["adidas"] = OldEmb
    /\ snap["adidas"].state = "graph"
    /\ snap["nike"] = GarbageSnap

(***************************************************************************)
(* The snapshot against the posts.                                         *)
(***************************************************************************)
\* the ids of the post nodes that the posts ps give
PostNodesFor(ps) == {PostNodeId(pid) : pid \in IdsOf(ps)}

\* C29: build_graph without force_rebuild, when the snapshot loads, returns the
\* stored graph whatever the post collection is, replaced or removed; a scrape
\* leaves the snapshot as it is; build_graph with force_rebuild, or with a
\* snapshot that is absent or does not load, over an existing collection returns
\* and stores a graph whose post nodes are the current posts.
C29_SnapshotNotInvalidated ==
    [][\A username \in Handles :
          LET u == NormUser(username)
          IN  /\ (BuildStep(username, FALSE) /\ snap[u].state = "graph")
                 => /\ result'.path = "cache"
                    /\ result'.kind = "value"
                    /\ result'.value = snap[u].graph
                    /\ snap'[u] = snap[u]
              /\ \A force_rebuild \in BOOLEAN :
                    (/\ BuildStep(username, force_rebuild)
                     /\ force_rebuild \/ snap[u].state # "graph"
                     /\ posts[u].exists)
                    => /\ result'.kind = "value"
                       /\ PostNodes(result'.value) = PostNodesFor(posts[u].list)
                       /\ snap'[u] = SnapFile(result'.value)
              /\ result'.op = "scrape_account" => snap' = snap]_vars

\* build, forced scrape of other posts, build without force_rebuild: the graph
\* returned holds the posts of the first scrape, the collection and the
\* embedding record those of the second
C29_Witness ==
    /\ result.op = "build_graph"
    /\ result.arg = <<FALSE>>
    /\ result.path = "cache"
    /\ posts["nike"].exists /\ posts["nike"].list # <<>>
    /\ IsFresh(emb["nike"], posts["nike"].list)
    /\ PostNodes(result.value) # {}
    /\ PostNodes(result.value) \cap PostNodesFor(posts["nike"].list) = {}

(***************************************************************************)
(* The comparison of the contexts of several accounts.                     *)
(***************************************************************************)
\* the last call was get_comparison_context
ContextsCompared == result.op = "get_comparison_context"

\* the collection of the account username holds posts
Loads(username) ==
    posts[NormUser(username)].exists /\ posts[NormUser(username)].list # <<>>

\* the places of the list usernames whose account loads
LoadedAt(usernames) == {k \in 1..Len(usernames) : Loads(usernames[k])}

\* the hashtags in the top_by_frequency table of the account username
TopTags(username) ==
    LET rows == HashtagsOf(username, posts[NormUser(username)].list).top_by_frequency
    IN  {rows[i].hashtag[2] : i \in 1..Len(rows)}

\* the themes of the posts of the account username
ThemesOf(username) ==
    LET ps == posts[NormUser(username)].list
    IN  UNION {Range(ps[i].themes) : i \in 1..Len(ps)}

\* words holds, each once and in ascending string order, the words that every one
\* of the sets holds, provided there are two sets or more, and nothing otherwise
SortedCommon(words, sets) ==
    IF Cardinality(DOMAIN sets) >= 2
    THEN /\ Range(words) = {w \in UNION {sets[k] : k \in DOMAIN sets} :
                               \A k \in DOMAIN sets : w \in sets[k]}
         /\ \A i, j \in 1..Len(words) : i < j => WordOrd(words[i]) < WordOrd(words[j])
    ELSE words = <<>>

\* C30: get_comparison_context returns a value for every list of usernames; each
\* username of the list has one entry under accounts, the full context of its
\* account when the account holds posts and otherwise a record of an error
\* message alone (posts missing or empty); shared_hashtags and shared_themes are
\* the sorted intersections of the top_by_frequency hashtags and of the themes of
\* the listed accounts that loaded, and empty when fewer than two of them loaded.
\* Accounts are counted as the list names them.
C30_ComparisonNeverRaises ==
    ContextsCompared =>
        LET usernames == result.arg[1]
            accounts == result.value.accounts
            loaded == LoadedAt(usernames)
        IN  /\ result.kind = "value"
            /\ {accounts[i].key : i \in 1..Len(accounts)} = Range(usernames)
            /\ \A i, j \in 1..Len(accounts) : accounts[i].key = accounts[j].key => i = j
            /\ \A i \in 1..Len(accounts) :
                  IF Loads(accounts[i].key)
                  THEN accounts[i].value
                          = ContextOf(accounts[i].key, posts[NormUser(accounts[i].key)].list)
                  ELSE DOMAIN accounts[i].value = {"error"}
            /\ SortedCommon(result.value.shared_hashtags,
                            [k \in loaded |-> TopTags(usernames[k])])
            /\ SortedCommon(result.value.shared_themes,
                            [k \in loaded |-> ThemesOf(usernames[k])])

\* two accounts compared of which the first holds hashtags and themes and the
\* second an empty collection: the first has its context, the second an error
\* record, and nothing is shared
C30_Witness ==
    /\ ContextsCompared
    /\ result.arg[1] = <<"nike", "adidas">>
    /\ Loads("nike") /\ TopTags("nike") # {} /\ ThemesOf("nike") # {}
    /\ posts["adidas"].exists /\ posts["adidas"].list = <<>>
    /\ Len(result.value.accounts) = 2
    /\ result.value.accounts[1].value = ContextOf("nike", posts["nike"].list)
    /\ DOMAIN result.value.accounts[2].value = {"error"}
    /\ result.value.shared_hashtags = <<>>

\* two accounts compared that both loaded, with two hashtags and a theme in common
C30_BothLoaded ==
    /\ ContextsCompared
    /\ result.arg[1] = <<"nike", "adidas">>
    /\ result.value.shared_hashtags = <<"gym", "run">>
    /\ result.value.shared_themes = <<"summer_run">>
    /\ posts["nike"] # posts["adidas"]

==========================================================================
